---- MODULE Spec2Model ----
(***************************************************************************)
(* Invoice validation and compliance scoring of 2go_ai_app:                *)
(*   - services/document-validation.service.ts  (validateInvoiceData)      *)
(*   - services/bir-compliance.service.ts       (validateBIRCompliance)    *)
(*   - routes/api/ai/invoice/$invoiceNo          (validate request)         *)
(*   - routes/api/document/batch-validate.tsx   (batch orchestrators)      *)
(*                                                                         *)
(* The specifications of the module:                                       *)
(*   SpecValidate  the two validators applied to bounded input records     *)
(*   SpecInvoice   the stored invoices and concurrent validate requests    *)
(*   SpecBatch     one batch request, its chunks and per-document pipelines*)
(*   SpecConfig    the registry of validation configurations               *)
(*   SpecRepeat    a validator called twice on one record                  *)
(*   SpecRegister  rule sets registered at run time                        *)
(*   SpecUpload    one upload request and its polling loop                 *)
(*                                                                         *)
(* Amounts are integers in centavos, quantities are whole units, strings   *)
(* are sequences of one-character strings, dates are day numbers.          *)
(***************************************************************************)
EXTENDS Integers, Sequences, FiniteSets, TLC

VARIABLES
  \* --- validators ---
  record,        \* the raw input object handed to a validator
  now,           \* the clock read by the date checks (day number)
  call,          \* which validator was called last, with which rule-set name
  result,        \* what that call produced (a result, or a throw)
  previous,      \* what the call before it produced, when the call was repeated
  ruleSets,      \* the two rule-set registries: name -> rule set
  \* --- invoice store and validate requests ---
  invoices,      \* invoice_tbl: id -> row (status fields, parsedData)
  reqs,          \* the validate requests in progress: request -> local state
  \* --- batch orchestrator ---
  deployed,      \* which validate route is deployed; whether callers serialize
  \* --- batch orchestrator ---
  batch,         \* the batch request being served
  \* --- validation configuration registry ---
  validationConfigs,  \* the in-memory array of stored configurations
  http,          \* the last request to /api/validation/configs and its response
  \* --- upload pipeline ---
  upload         \* the upload request being served and its polling loop

vars == <<record, now, call, result, previous, ruleSets, invoices, reqs, deployed, batch,
          validationConfigs, http, upload>>
cfgVars == <<validationConfigs, http>>
valVars == <<record, now, call, result, previous, ruleSets>>
invVars == <<invoices, reqs>>

(***************************************************************************)
(* JavaScript values                                                       *)
(***************************************************************************)
Undef   == [t |-> "undef", s |-> <<>>, n |-> 0, b |-> FALSE, a |-> <<>>]
Null    == [t |-> "null",  s |-> <<>>, n |-> 0, b |-> FALSE, a |-> <<>>]
Str(x)  == [t |-> "str",   s |-> x,    n |-> 0, b |-> FALSE, a |-> <<>>]
Num(x)  == [t |-> "num",   s |-> <<>>, n |-> x, b |-> FALSE, a |-> <<>>]
Bool(x) == [t |-> "bool",  s |-> <<>>, n |-> 0, b |-> x,     a |-> <<>>]
Arr(x)  == [t |-> "arr",   s |-> <<>>, n |-> 0, b |-> FALSE, a |-> x]
Obj     == [t |-> "obj",   s |-> <<>>, n |-> 0, b |-> FALSE, a |-> <<>>]

\* !v
Falsy(v) ==
  CASE v.t = "undef" -> TRUE
    [] v.t = "null"  -> TRUE
    [] v.t = "str"   -> v.s = <<>>
    [] v.t = "num"   -> v.n = 0
    [] v.t = "bool"  -> ~v.b
    [] OTHER         -> FALSE

IsTrue(v) == v.t = "bool" /\ v.b
IsStr(v, x) == v.t = "str" /\ v.s = x

Abs(x) == IF x < 0 THEN -x ELSE x

\* Math.round(100 * num / den) for num >= 0, den > 0: halves round up
RoundPct(num, den) == (200 * num + den) \div (2 * den)

(***************************************************************************)
(* Strings                                                                 *)
(***************************************************************************)
Digits == {"0", "1", "2", "3", "4", "5", "6", "7", "8", "9"}
Upper  == {"A", "B", "I", "N", "R", "T", "V"}
IsWS(c) == c = " "

RECURSIVE FilterSeq(_, _)
FilterSeq(s, keepWS) ==
  IF s = <<>> THEN <<>>
  ELSE IF IsWS(Head(s)) /\ ~keepWS THEN FilterSeq(Tail(s), keepWS)
  ELSE <<Head(s)>> \o FilterSeq(Tail(s), keepWS)

\* s.replace(/\s/g, '')
StripWS(s) == FilterSeq(s, FALSE)

\* s.replace(/\s|-/g, '')
RECURSIVE StripWSDash(_)
StripWSDash(s) ==
  IF s = <<>> THEN <<>>
  ELSE IF IsWS(Head(s)) \/ Head(s) = "-" THEN StripWSDash(Tail(s))
  ELSE <<Head(s)>> \o StripWSDash(Tail(s))

\* s.trim().length
TrimLen(s) ==
  LET idx == {i \in 1..Len(s) : ~IsWS(s[i])}
  IN  IF idx = {} THEN 0
      ELSE (CHOOSE i \in idx : \A j \in idx : j <= i)
           - (CHOOSE i \in idx : \A j \in idx : i <= j) + 1

\* s.replace(/\s*\(.*?\)\s*/g, '').replace(/\s/g, ''): every "(...)" group up
\* to its first ")" goes, then all white space
RECURSIVE StripLabels(_)
StripLabels(s) ==
  IF s = <<>> THEN <<>>
  ELSE IF Head(s) = "(" /\ \E i \in 2..Len(s) : s[i] = ")"
       THEN LET close == CHOOSE i \in 2..Len(s) :
                           s[i] = ")" /\ \A j \in 2..(i-1) : s[j] # ")"
            IN  StripLabels(SubSeq(s, close + 1, Len(s)))
       ELSE <<Head(s)>> \o StripLabels(Tail(s))

CleanTin(s) == StripWS(StripLabels(s))

AllDigits(s) == \A i \in 1..Len(s) : s[i] \in Digits

\* /^\d{3}-\d{3}-\d{3}-\d{3}$/
TinDashedPattern(s) ==
  /\ Len(s) = 15
  /\ \A i \in 1..15 : IF i \in {4, 8, 12} THEN s[i] = "-" ELSE s[i] \in Digits

\* /^(\d{3}-\d{3}-\d{3}-\d{3}|\d{9,12})$/
TinPattern(s) == TinDashedPattern(s) \/ (AllDigits(s) /\ Len(s) >= 9 /\ Len(s) <= 12)

\* /^[A-Z0-9-]+$/
SerialPattern(s) ==
  Len(s) > 0 /\ \A i \in 1..Len(s) : s[i] \in Upper \cup Digits \cup {"-"}

\* s.includes(sub)
Includes(s, sub) ==
  \E i \in 1..(Len(s) - Len(sub) + 1) : SubSeq(s, i, i + Len(sub) - 1) = sub

\* /\d/.test(s)
HasDigit(s) == \E i \in 1..Len(s) : s[i] \in Digits

\* new Date(s).getTime() for "YYYY-MM-DD": a day number, or -1 for NaN
DigitVal(c) == CHOOSE d \in 0..9 : <<"0","1","2","3","4","5","6","7","8","9">>[d + 1] = c
NaN == 0 - 1
ParseDate(s) ==
  IF /\ Len(s) = 10
     /\ \A i \in 1..10 : IF i \in {5, 8} THEN s[i] = "-" ELSE s[i] \in Digits
  THEN LET y == DigitVal(s[1]) * 1000 + DigitVal(s[2]) * 100
                + DigitVal(s[3]) * 10 + DigitVal(s[4])
           m == DigitVal(s[6]) * 10 + DigitVal(s[7])
           d == DigitVal(s[9]) * 10 + DigitVal(s[10])
       IN  IF m \in 1..12 /\ d \in 1..31 THEN y * 372 + (m - 1) * 31 + d ELSE NaN
  ELSE NaN

(***************************************************************************)
(* Schemas (zod).  A kind says which runtime types a key accepts:          *)
(*   strN  z.string().nullable()            strNO  ...nullable().optional() *)
(*   numN  z.number().nullable()            numNO  ...nullable().optional() *)
(*   bool  z.boolean()    boolO z.boolean().optional()                     *)
(*   boolN z.boolean().nullable()           objO   z.object({})...optional()*)
(*   ctlN / vatN  z.enum([...]).nullable()                                  *)
(*   itemsN / items  z.array(z.object({...})) nullable / required           *)
(* parse() keeps the keys of the schema and strips every other key.        *)
(***************************************************************************)
BIRItemFields == {"quantity", "unit_cost", "description", "line_total"}
StdItemFields == {"description", "quantity", "unit_price", "line_total"}
ItemFields    == BIRItemFields \cup StdItemFields

ItemOK(item, fields) ==
  \A f \in fields :
    IF f = "description" THEN item[f].t = "str" ELSE item[f].t = "num"

\* mutant: the string keys declared .nullable().optional()
KindOKOptional(kind, v) ==
  CASE kind \in {"strN", "strNO"} -> v.t \in {"str", "null", "undef"}
    [] kind \in {"numN", "numNO"} -> v.t \in {"num", "null", "undef"}
    [] kind = "bool"   -> v.t = "bool"
    [] kind = "boolO"  -> v.t \in {"bool", "undef"}
    [] kind = "boolN"  -> v.t \in {"bool", "null"}
    [] kind = "objO"   -> v.t \in {"obj", "undef"}
    [] kind = "ctlN"   -> v.t = "null" \/ IsStr(v, <<"manual">>) \/ IsStr(v, <<"system">>)
    [] kind = "vatN"   -> v.t = "null" \/ IsStr(v, <<"vat_registered">>)
                                       \/ IsStr(v, <<"non_vat_registered">>)
    [] kind = "itemsN" -> v.t = "null"
                          \/ (v.t = "arr" /\ \A i \in 1..Len(v.a) : ItemOK(v.a[i], BIRItemFields))
    [] kind = "items"  -> v.t = "arr" /\ \A i \in 1..Len(v.a) : ItemOK(v.a[i], StdItemFields)
    [] OTHER           -> FALSE

KindOK(kind, v) ==
  CASE kind = "strN"   -> v.t \in {"str", "null"}
    [] kind = "strNO"  -> v.t \in {"str", "null", "undef"}
    [] kind = "numN"   -> v.t \in {"num", "null"}
    [] kind = "numNO"  -> v.t \in {"num", "null", "undef"}
    [] kind = "bool"   -> v.t = "bool"
    [] kind = "boolO"  -> v.t \in {"bool", "undef"}
    [] kind = "boolN"  -> v.t \in {"bool", "null"}
    [] kind = "objO"   -> v.t \in {"obj", "undef"}
    [] kind = "ctlN"   -> v.t = "null" \/ IsStr(v, <<"manual">>) \/ IsStr(v, <<"system">>)
    [] kind = "vatN"   -> v.t = "null" \/ IsStr(v, <<"vat_registered">>)
                                       \/ IsStr(v, <<"non_vat_registered">>)
    [] kind = "itemsN" -> v.t = "null"
                          \/ (v.t = "arr" /\ \A i \in 1..Len(v.a) : ItemOK(v.a[i], BIRItemFields))
    [] kind = "items"  -> v.t = "arr" /\ \A i \in 1..Len(v.a) : ItemOK(v.a[i], StdItemFields)
    [] OTHER           -> FALSE

BIRInvoiceDataSchema ==
  [seller_registered_name |-> "strN", seller_tin |-> "strN", seller_address |-> "strN",
   invoice_word_present |-> "boolO", transaction_date |-> "strN",
   buyer_registered_name |-> "strN", buyer_address |-> "strN", buyer_tin |-> "strN",
   serial_number |-> "strN", total_amount |-> "numN", line_items |-> "itemsN",
   document_control_type |-> "ctlN", atp_ocn_number |-> "strNO", ptu_accn_number |-> "strNO",
   vat_registration_status |-> "vatN", vat_exempt_statement |-> "boolO",
   sales_subject_to_percentage_tax |-> "numNO", exempt_sales |-> "numNO",
   vatable_sales |-> "numNO", vat_amount |-> "numNO", zero_rated_sales |-> "numNO",
   vat_exempt_sales |-> "numNO", vat_exempt_indicator |-> "boolO",
   zero_rated_indicator |-> "boolO",
   invoice_number |-> "strNO", invoice_date |-> "strNO", vendor_name |-> "strNO",
   vendor_address |-> "strNO", vendor_tin |-> "strNO", customer_name |-> "strNO",
   customer_address |-> "strNO", customer_tin |-> "strNO"]

InvoiceDataSchema ==
  [invoice_number |-> "strN", invoice_date |-> "strN", vendor_name |-> "strN",
   vendor_address |-> "strN", vendor_tin |-> "strN", vendor_business_style |-> "strN",
   customer_name |-> "strN", customer_address |-> "strN", customer_tin |-> "strN",
   total_amount |-> "numN", due_date |-> "strN", line_items |-> "items",
   subtotal |-> "numN", vatable_sales |-> "numN", vat_exempt_sales |-> "numN",
   zero_rated_sales |-> "numN", percentage_tax_sales |-> "numN", net_amount |-> "numN",
   vat_amount |-> "numN", currency |-> "strN", invoice_type |-> "strN",
   vat_status |-> "strN", has_invoice_word |-> "bool", has_serial_number |-> "bool",
   has_qty_unit_desc |-> "bool", has_vat_label |-> "bool", has_exempt_label |-> "bool",
   has_sales_breakdown |-> "bool", document_control_type |-> "strN",
   document_control_number |-> "strN", document_control_date |-> "strN",
   signature_present |-> "bool", form_2307_attached |-> "bool",
   form_2307_consistent |-> "boolN", rag_validation |-> "objO"]

\* every key a record of the model may carry: the keys of both schemas, and
\* bir_atp, which the extraction schemas and the standard rule sets name
AllFields == DOMAIN BIRInvoiceDataSchema \cup DOMAIN InvoiceDataSchema \cup {"bir_atp"}

\* schema.parse(data) succeeds
SchemaAccepts(schema, data) == \A f \in DOMAIN schema : KindOK(schema[f], data[f])

StripItem(item, fields) == [f \in ItemFields |-> IF f \in fields THEN item[f] ELSE Undef]

\* the object schema.parse(data) returns: unknown keys stripped, also in line items
Parsed(schema, data, itemFields) ==
  [f \in AllFields |->
     IF f \notin DOMAIN schema THEN Undef
     ELSE IF f = "line_items" /\ data[f].t = "arr"
          THEN Arr([i \in 1..Len(data[f].a) |-> StripItem(data[f].a[i], itemFields)])
          ELSE data[f]]

(***************************************************************************)
(* Rule validators.  A validator closure is named by its kind; applying it *)
(* gives "pass", "fail", or "throw" (a TypeError from calling a method on  *)
(* undefined).                                                             *)
(***************************************************************************)
PF(b) == IF b THEN "pass" ELSE "fail"

\* value !== null && value.trim().length > 0
NonEmptyTrim(v) ==
  IF v.t = "null" THEN "fail"
  ELSE IF v.t = "str" THEN PF(TrimLen(v.s) > 0)
  ELSE "throw"

ApplyValidator(kind, v) ==
  CASE kind = "nonEmpty"     -> NonEmptyTrim(v)
    [] kind = "isTrue"       -> PF(IsTrue(v))
    [] kind = "tinLabelled"  -> IF Falsy(v) THEN "fail" ELSE PF(TinPattern(CleanTin(v.s)))
    [] kind = "tin"          -> IF Falsy(v) THEN "fail" ELSE PF(TinPattern(StripWS(v.s)))
    [] kind = "tinDashed"    -> IF Falsy(v) THEN "fail" ELSE PF(TinDashedPattern(StripWS(v.s)))
    [] kind = "validDate"    -> IF Falsy(v) THEN "fail" ELSE PF(ParseDate(v.s) # NaN)
    [] kind = "positive"     -> PF(v.t = "num" /\ v.n > 0)
    [] kind = "manualOrSystem" -> PF(IsStr(v, <<"manual">>) \/ IsStr(v, <<"system">>))
    [] kind = "isSystem"     -> PF(IsStr(v, <<"system">>))
    [] kind = "anyVatReg"    -> PF(IsStr(v, <<"vat_registered">>) \/ IsStr(v, <<"non_vat_registered">>))
    [] kind = "isVatReg"     -> PF(IsStr(v, <<"vat_registered">>))
    [] kind = "isNonVatReg"  -> PF(IsStr(v, <<"non_vat_registered">>))
    \* value === null || value >= 0   (undefined >= 0 is false)
    [] kind = "nullOrNonNeg" -> PF(v.t = "null" \/ (v.t = "num" /\ v.n >= 0))
    \* value !== null && value >= 0
    [] kind = "nonNeg"       -> PF(v.t = "num" /\ v.n >= 0)
    [] kind = "govSerial"    -> IF Falsy(v) THEN "fail"
                                ELSE PF(TrimLen(v.s) >= 8 /\ SerialPattern(v.s))
    [] kind = "stdVatStatus" -> PF(v.t = "str" /\ v.s \in {<<"vatable">>, <<"vat_exempt">>,
                                                          <<"zero_rated">>, <<"non_vat">>})
    \* no validator: fieldValue !== null && fieldValue !== undefined
    [] OTHER                 -> PF(v.t \notin {"null", "undef"})

Rule(f, req, k, w) == [field |-> f, required |-> req, validator |-> k, weight |-> w]

BIR_COMPLIANCE_RULE_SETS ==
  [official_bir_compliance |->
     [minimumScore |-> 90,
      rules |-> << Rule("seller_registered_name", TRUE, "nonEmpty", 10),
                   Rule("seller_tin", TRUE, "tinLabelled", 10),
                   Rule("seller_address", TRUE, "nonEmpty", 8),
                   Rule("invoice_word_present", TRUE, "isTrue", 7),
                   Rule("transaction_date", TRUE, "validDate", 9),
                   Rule("buyer_registered_name", TRUE, "nonEmpty", 8),
                   Rule("buyer_address", TRUE, "nonEmpty", 6),
                   Rule("buyer_tin", TRUE, "tinLabelled", 8),
                   Rule("serial_number", TRUE, "nonEmpty", 9),
                   Rule("total_amount", TRUE, "positive", 10),
                   Rule("document_control_type", TRUE, "manualOrSystem", 10),
                   Rule("vat_registration_status", TRUE, "anyVatReg", 10) >>],
   vat_registered_bir_compliance |->
     [minimumScore |-> 90,
      rules |-> << Rule("vat_registration_status", TRUE, "isVatReg", 10),
                   Rule("vat_exempt_statement", TRUE, "isTrue", 9),
                   Rule("sales_subject_to_percentage_tax", FALSE, "nullOrNonNeg", 6),
                   Rule("exempt_sales", FALSE, "nullOrNonNeg", 6) >>],
   non_vat_registered_bir_compliance |->
     [minimumScore |-> 90,
      rules |-> << Rule("vat_registration_status", TRUE, "isNonVatReg", 10),
                   Rule("vat_amount", TRUE, "nonNeg", 9),
                   Rule("vatable_sales", FALSE, "nullOrNonNeg", 7),
                   Rule("zero_rated_sales", FALSE, "nullOrNonNeg", 6),
                   Rule("vat_exempt_sales", FALSE, "nullOrNonNeg", 6) >>],
   government_bir_compliance |->
     [minimumScore |-> 95,
      rules |-> << Rule("serial_number", TRUE, "govSerial", 10),
                   Rule("document_control_type", TRUE, "isSystem", 10),
                   Rule("buyer_tin", TRUE, "tinDashed", 10) >>]]

VALIDATION_RULE_SETS ==
  [bir_invoice |->
     [rules |-> << Rule("form_2307_attached", TRUE, "isTrue", 0),
                   Rule("form_2307_consistent", TRUE, "isTrue", 0) >>],
   standard_invoice |->
     [rules |-> << Rule("bir_atp", TRUE, "isTrue", 0),
                   Rule("signature_present", TRUE, "isTrue", 0),
                   Rule("invoice_number", TRUE, "nonEmpty", 0),
                   Rule("vendor_tin", TRUE, "tin", 0),
                   Rule("total_amount", TRUE, "positive", 0) >>],
   government_invoice |->
     [rules |-> << Rule("bir_atp", TRUE, "isTrue", 0),
                   Rule("signature_present", TRUE, "isTrue", 0),
                   Rule("invoice_number", TRUE, "nonEmpty", 0),
                   Rule("vendor_tin", TRUE, "tin", 0),
                   Rule("customer_tin", TRUE, "tin", 0),
                   Rule("vat_status", TRUE, "stdVatStatus", 0) >>],
   purchase_order_based |->
     [rules |-> << Rule("bir_atp", TRUE, "isTrue", 0),
                   Rule("signature_present", TRUE, "isTrue", 0) >>]]

\* the registries as the two modules create them
BuiltInRuleSets == [std |-> VALIDATION_RULE_SETS, bir |-> BIR_COMPLIANCE_RULE_SETS]

(***************************************************************************)
(* validateBIRCompliance                                                   *)
(***************************************************************************)
Err(f, i)  == [field |-> f, index |-> i, severity |-> "critical"]
Warn(f, i) == [field |-> f, index |-> i]
NoIndex == 0 - 1

RECURSIVE SumSeq(_)
SumSeq(q) == IF q = <<>> THEN 0 ELSE Head(q) + SumSeq(Tail(q))

RECURSIVE FlatSeq(_)
FlatSeq(q) == IF q = <<>> THEN <<>> ELSE Head(q) \o FlatSeq(Tail(q))

SeqOf(cond, x) == IF cond THEN <<x>> ELSE <<>>

lineItemsWeight == 15

\* missingFields of one line item, in the order the code pushes them
MissingFields(item) ==
  SeqOf(Falsy(item.quantity) \/ item.quantity.n <= 0, "quantity")
  \o SeqOf(Falsy(item.unit_cost) \/ item.unit_cost.n <= 0, "unit_cost")
  \o SeqOf(Falsy(item.description) \/ TrimLen(item.description.s) = 0, "description")
  \o SeqOf(Falsy(item.line_total) \/ item.line_total.n <= 0, "line_total")
  \o SeqOf(/\ ~Falsy(item.quantity) /\ ~Falsy(item.unit_cost) /\ ~Falsy(item.line_total)
           /\ Abs(item.line_total.n - item.quantity.n * item.unit_cost.n) > 1,
           "accurate_calculation")

validateLineItemsCompleteness(lineItems) ==
  LET missing == [i \in 1..Len(lineItems) |-> MissingFields(lineItems[i])]
      bad     == {i \in 1..Len(lineItems) : missing[i] # <<>>}
  IN  [totalItems      |-> Len(lineItems),
       completeItems   |-> Len(lineItems) - Cardinality(bad),
       incompleteItems |-> FlatSeq([i \in 1..Len(lineItems) |->
                              SeqOf(i \in bad, [index |-> i - 1, missingFields |-> missing[i]])])]

\* mutant: a VAT amount of zero counts as missing
VatRuleErrorsZeroMissing(data) ==
  IF IsStr(data.vat_registration_status, <<"vat_registered">>)
  THEN SeqOf(Falsy(data.vat_exempt_statement), Err("vat_exempt_statement", NoIndex))
       \o SeqOf(~Falsy(data.vat_amount) /\ data.vat_amount.n > 0, Err("vat_amount", NoIndex))
  ELSE IF IsStr(data.vat_registration_status, <<"non_vat_registered">>)
  THEN SeqOf(Falsy(data.vat_amount), Err("vat_amount", NoIndex))
       \o SeqOf(~Falsy(data.vat_exempt_statement), Err("vat_exempt_statement", NoIndex))
  ELSE <<>>

VatRuleErrors(data) ==
  IF IsStr(data.vat_registration_status, <<"vat_registered">>)
  THEN SeqOf(Falsy(data.vat_exempt_statement), Err("vat_exempt_statement", NoIndex))
       \o SeqOf(~Falsy(data.vat_amount) /\ data.vat_amount.n > 0, Err("vat_amount", NoIndex))
  ELSE IF IsStr(data.vat_registration_status, <<"non_vat_registered">>)
  THEN SeqOf(Falsy(data.vat_amount) /\ ~(data.vat_amount.t = "num" /\ data.vat_amount.n = 0),
             Err("vat_amount", NoIndex))
       \o SeqOf(~Falsy(data.vat_exempt_statement), Err("vat_exempt_statement", NoIndex))
  ELSE <<>>

\* mutant: only system-generated invoices are asked for their number
DocumentControlErrorsSystemOnly(data) ==
  IF IsStr(data.document_control_type, <<"system">>)
  THEN SeqOf(Falsy(data.ptu_accn_number), Err("ptu_accn_number", NoIndex))
  ELSE <<>>

DocumentControlErrors(data) ==
  IF IsStr(data.document_control_type, <<"manual">>)
  THEN SeqOf(Falsy(data.atp_ocn_number), Err("atp_ocn_number", NoIndex))
  ELSE IF IsStr(data.document_control_type, <<"system">>)
  THEN SeqOf(Falsy(data.ptu_accn_number), Err("ptu_accn_number", NoIndex))
  ELSE <<>>

LineItemErrors(item, i) ==
  SeqOf(Falsy(item.quantity) \/ item.quantity.n <= 0, Err("line_items[].quantity", i))
  \o SeqOf(Falsy(item.unit_cost) \/ item.unit_cost.n <= 0, Err("line_items[].unit_cost", i))
  \o SeqOf(Falsy(item.description) \/ TrimLen(item.description.s) = 0,
           Err("line_items[].description", i))

LineItemWarnings(item, i) ==
  SeqOf(Abs(item.line_total.n - item.quantity.n * item.unit_cost.n) > 1,
        Warn("line_items[].line_total", i))

performBIRBusinessRuleValidations(data) ==
  LET items == IF data.line_items.t = "arr" THEN data.line_items.a ELSE <<>>
  IN  [errors   |-> VatRuleErrors(data) \o DocumentControlErrors(data)
                    \o (IF Len(items) > 0
                        THEN FlatSeq([i \in 1..Len(items) |-> LineItemErrors(items[i], i - 1)])
                        ELSE <<Err("line_items", NoIndex)>>),
       warnings |-> FlatSeq([i \in 1..Len(items) |-> LineItemWarnings(items[i], i - 1)])]

DaysPerYear == 372
HighValue == 100000000

TinLengthWarning(v, f) ==
  SeqOf(~Falsy(v) /\ (Len(StripWSDash(v.s)) < 9 \/ Len(StripWSDash(v.s)) > 12), Warn(f, NoIndex))

performBIRSpecificValidations(data, today) ==
  LET txn == IF Falsy(data.transaction_date) THEN NaN ELSE ParseDate(data.transaction_date.s)
  IN  [errors   |-> SeqOf(txn # NaN /\ txn > today, Err("transaction_date", NoIndex)),
       warnings |->
         TinLengthWarning(data.seller_tin, "seller_tin")
         \o SeqOf(/\ ~Falsy(data.seller_tin)
                  /\ \/ /\ IsStr(data.vat_registration_status, <<"vat_registered">>)
                        /\ ~Includes(data.seller_tin.s, <<"V", "A", "T">>)
                     \/ /\ IsStr(data.vat_registration_status, <<"non_vat_registered">>)
                        /\ ~Includes(data.seller_tin.s, <<"N", "o", "n", "-", "V", "A", "T">>),
                  Warn("seller_tin", NoIndex))
         \o TinLengthWarning(data.buyer_tin, "buyer_tin")
         \o SeqOf(txn # NaN /\ ~(txn > today) /\ txn < today - DaysPerYear,
                  Warn("transaction_date", NoIndex))
         \o SeqOf(~Falsy(data.total_amount) /\ data.total_amount.n > HighValue,
                  Warn("total_amount", NoIndex))
         \o SeqOf(~Falsy(data.serial_number) /\ ~HasDigit(data.serial_number.s),
                  Warn("serial_number", NoIndex))
         \o SeqOf(/\ IsStr(data.vat_registration_status, <<"non_vat_registered">>)
                  /\ ~Falsy(data.vatable_sales) /\ ~Falsy(data.vat_amount)
                  /\ Abs((12 * data.vatable_sales.n + 50) \div 100 - data.vat_amount.n) > 100,
                  Warn("vat_amount", NoIndex))]

Thrown == [kind |-> "throw"]

BIRSchemaError ==
  [kind |-> "result", isCompliant |-> FALSE, errors |-> <<Err("schema", NoIndex)>>,
   warnings |-> <<>>, score |-> 0,
   fieldCompleteness |->
     [requiredFields |-> <<>>,
      lineItemsCompleteness |-> [totalItems |-> 0, completeItems |-> 0, incompleteItems |-> <<>>],
      overallCompleteness |-> 0]]

\* mutant: the gate looks at the score alone
ComplianceGateScoreOnly(score, minimumScore, errors) == score >= minimumScore

\* score >= ruleSet.minimumScore && errors.length === 0
ComplianceGate(score, minimumScore, errors) == score >= minimumScore /\ Len(errors) = 0

\* achievedWeight += rule.weight, for the rules that count
AchievedByRule(rule, present) == IF rule.required /\ present THEN rule.weight ELSE 0

BIRRulesPass(ruleSet, data, today) ==
  LET rules   == ruleSet.rules
      outcome == [i \in 1..Len(rules) |-> ApplyValidator(rules[i].validator, data[rules[i].field])]
      present == [i \in 1..Len(rules) |-> outcome[i] = "pass"]
      ruleErrors == FlatSeq([i \in 1..Len(rules) |->
                      SeqOf(rules[i].required /\ ~present[i], Err(rules[i].field, NoIndex))])
      li      == validateLineItemsCompleteness(
                   IF data.line_items.t = "arr" THEN data.line_items.a ELSE <<>>)
      totalWeight == SumSeq([i \in 1..Len(rules) |-> rules[i].weight]) + lineItemsWeight
      ruleWeight  == SumSeq([i \in 1..Len(rules) |-> AchievedByRule(rules[i], present[i])])
      allComplete == li.completeItems = li.totalItems /\ li.totalItems > 0
      \* achievedWeight / totalWeight as the fraction num / den
      num == IF allComplete THEN ruleWeight + lineItemsWeight
             ELSE IF li.totalItems = 0 THEN ruleWeight
             ELSE ruleWeight * li.totalItems + li.completeItems * lineItemsWeight
      den == IF allComplete \/ li.totalItems = 0 THEN totalWeight
             ELSE totalWeight * li.totalItems
      business == performBIRBusinessRuleValidations(data)
      specific == performBIRSpecificValidations(data, today)
      errors   == ruleErrors \o SeqOf(li.totalItems = 0, Err("line_items", NoIndex))
                  \o business.errors \o specific.errors
      warnings == SeqOf(~allComplete /\ li.totalItems # 0, Warn("line_items", NoIndex))
                  \o business.warnings \o specific.warnings
      score    == RoundPct(num, den)
  IN  IF \E i \in 1..Len(rules) : outcome[i] = "throw" THEN Thrown
      ELSE [kind |-> "result",
            isCompliant |-> ComplianceGate(score, ruleSet.minimumScore, errors),
            errors |-> errors, warnings |-> warnings, score |-> score,
            fieldCompleteness |->
              [requiredFields |-> [i \in 1..Len(rules) |->
                                     [field |-> rules[i].field, present |-> present[i]]],
               lineItemsCompleteness |-> li,
               overallCompleteness |-> score]]

\* mutant: the rule set is looked up before the record is parsed
validateBIRComplianceLookupFirst(invoiceData, ruleSetName, today) ==
  IF ruleSetName \notin DOMAIN ruleSets.bir THEN Thrown
  ELSE IF ~SchemaAccepts(BIRInvoiceDataSchema, invoiceData) THEN BIRSchemaError
  ELSE BIRRulesPass(ruleSets.bir[ruleSetName],
                    Parsed(BIRInvoiceDataSchema, invoiceData, BIRItemFields), today)

validateBIRCompliance(invoiceData, ruleSetName, today) ==
  IF ~SchemaAccepts(BIRInvoiceDataSchema, invoiceData) THEN BIRSchemaError
  ELSE IF ruleSetName \notin DOMAIN ruleSets.bir THEN Thrown
  ELSE BIRRulesPass(ruleSets.bir[ruleSetName],
                    Parsed(BIRInvoiceDataSchema, invoiceData, BIRItemFields), today)

(***************************************************************************)
(* validateInvoiceData                                                     *)
(***************************************************************************)
OnePeso == 100

performAdditionalValidations(data, today) ==
  LET items == data.line_items.a
      calculatedSubtotal == SumSeq([i \in 1..Len(items) |-> items[i].line_total.n])
      inv == IF Falsy(data.invoice_date) THEN NaN ELSE ParseDate(data.invoice_date.s)
  IN  [errors   |-> <<>>,
       warnings |->
         SeqOf(/\ IsStr(data.vat_status, <<"vatable">>)
               /\ ~Falsy(data.vatable_sales) /\ ~Falsy(data.vat_amount)
               /\ Abs((12 * data.vatable_sales.n + 50) \div 100 - data.vat_amount.n) > OnePeso,
               Warn("vat_amount", NoIndex))
         \o SeqOf(/\ Len(items) > 0
                  /\ ~Falsy(data.subtotal)
                  /\ Abs(calculatedSubtotal - data.subtotal.n) > OnePeso,
                  Warn("subtotal", NoIndex))
         \o SeqOf(inv # NaN /\ inv > today, Warn("invoice_date", NoIndex))]

StdSchemaError ==
  [kind |-> "result", isValid |-> FALSE, errors |-> <<Err("schema", NoIndex)>>,
   warnings |-> <<>>, score |-> 0]

\* Math.round((passedRules / totalRules) * 100); 0 / 0 is NaN
CompletenessScore(passedRules, totalRules) ==
  IF totalRules = 0 THEN NaN ELSE RoundPct(passedRules, totalRules)

StdRulesPass(ruleSet, data, today) ==
  LET rules   == ruleSet.rules
      outcome == [i \in 1..Len(rules) |->
                    IF rules[i].required
                    THEN ApplyValidator(rules[i].validator, data[rules[i].field])
                    ELSE "skip"]
      ruleErrors  == FlatSeq([i \in 1..Len(rules) |->
                       SeqOf(outcome[i] = "fail", Err(rules[i].field, NoIndex))])
      passedRules == Cardinality({i \in 1..Len(rules) : outcome[i] = "pass"})
      additional  == performAdditionalValidations(data, today)
      errors      == ruleErrors \o additional.errors
  IN  IF \E i \in 1..Len(rules) : outcome[i] = "throw" THEN Thrown
      ELSE [kind |-> "result", isValid |-> Len(errors) = 0, errors |-> errors,
            warnings |-> additional.warnings,
            score |-> CompletenessScore(passedRules, Len(rules))]

validateInvoiceData(invoiceData, ruleSetName, today) ==
  IF ~SchemaAccepts(InvoiceDataSchema, invoiceData) THEN StdSchemaError
  \* ruleSet is undefined: ruleSet.rules throws a TypeError, which is rethrown
  ELSE IF ruleSetName \notin DOMAIN ruleSets.std THEN Thrown
  ELSE StdRulesPass(ruleSets.std[ruleSetName],
                    Parsed(InvoiceDataSchema, invoiceData, StdItemFields), today)

(***************************************************************************)
(* Input records: a valid template with at most two keys changed           *)
(***************************************************************************)
MaxItems == 2

SName     == <<"A", "B", " ", "I", "N">>
SBlank    == <<" ", " ">>
STin      == <<"1","2","3","-","4","5","6","-","7","8","9","-","0","0","0">>
STinVat   == STin \o <<" ", "(", "V", "A", "T", ")">>
STinNon   == STin \o <<" ", "(", "N", "o", "n", "-", "V", "A", "T", ")">>
STinPlain == <<"1","2","3","4","5","6","7","8","9">>
STinShort == <<"1","2","-","3","4">>
SPast     == <<"2","0","2","5","-","0","1","-","1","5">>
SOld      == <<"2","0","2","3","-","0","1","-","1","5">>
SFuture   == <<"2","0","3","0","-","0","1","-","1","5">>
SNoDate   == <<"n","/","a">>
SSerial   == <<"I","N","V","-","2","0","2","5","-","0","0","1">>
SSerialLo == <<"i","n","v","-","2","0","2","5","-","0","0","1">>
SShort    == <<"A","1">>
Today     == ParseDate(<<"2","0","2","5","-","0","6","-","1","5">>)

Item(q, uc, up, d, lt) ==
  [quantity |-> q, unit_cost |-> uc, unit_price |-> up, description |-> d, line_total |-> lt]

BIRItemSamples ==
  { Item(Num(2), Num(50000), Undef, Str(SName), Num(100000)),    \* complete
    Item(Num(0), Num(50000), Undef, Str(SName), Num(100000)),    \* no quantity
    Item(Num(2), Num(50000), Undef, Str(SBlank), Num(100000)),   \* blank description
    Item(Num(2), Num(50000), Undef, Str(SName), Num(100002)),    \* total off by 0.02
    Item(Num(2), Undef, Num(50000), Str(SName), Num(100000)) }   \* legacy unit_price

StdItemSamples ==
  { Item(Num(2), Undef, Num(50000), Str(SName), Num(100000)),
    Item(Num(1), Undef, Num(50000), Str(SName), Num(50100)),
    Item(Num(2), Num(50000), Undef, Str(SName), Num(100000)) }   \* no unit_price

SeqsUpTo(S, n) == UNION {[1..k -> S] : k \in 0..n}

Absent == [f \in AllFields |-> Undef]

With(base, upd) == [f \in AllFields |-> IF f \in DOMAIN upd THEN upd[f] ELSE base[f]]

BIRCommon ==
  With(Absent,
    [seller_registered_name |-> Str(SName), seller_address |-> Str(SName),
     invoice_word_present |-> Bool(TRUE), transaction_date |-> Str(SPast),
     buyer_registered_name |-> Str(SName), buyer_address |-> Str(SName),
     buyer_tin |-> Str(STin), serial_number |-> Str(SSerial), total_amount |-> Num(112000),
     line_items |-> Arr(<<Item(Num(2), Num(50000), Undef, Str(SName), Num(100000))>>)])

\* a VAT-registered, system-generated invoice
TplVat ==
  With(BIRCommon,
    [seller_tin |-> Str(STinVat), document_control_type |-> Str(<<"system">>),
     ptu_accn_number |-> Str(SSerial), vat_registration_status |-> Str(<<"vat_registered">>),
     vat_exempt_statement |-> Bool(TRUE), sales_subject_to_percentage_tax |-> Null,
     exempt_sales |-> Num(0)])

\* a Non-VAT-registered, manually printed invoice
TplNonVat ==
  With(BIRCommon,
    [seller_tin |-> Str(STinNon), document_control_type |-> Str(<<"manual">>),
     atp_ocn_number |-> Str(SSerial), vat_registration_status |-> Str(<<"non_vat_registered">>),
     vatable_sales |-> Num(100000), vat_amount |-> Num(12000), zero_rated_sales |-> Null,
     vat_exempt_sales |-> Num(0)])

\* an extracted invoice as the standard validator expects it
TplStd ==
  With([f \in AllFields |-> IF f \in DOMAIN InvoiceDataSchema THEN Null ELSE Undef],
    [invoice_number |-> Str(SSerial), invoice_date |-> Str(SPast), vendor_name |-> Str(SName),
     vendor_tin |-> Str(STin), customer_tin |-> Str(STinPlain), total_amount |-> Num(112000),
     line_items |-> Arr(<<Item(Num(2), Undef, Num(50000), Str(SName), Num(100000))>>),
     subtotal |-> Num(100000), vatable_sales |-> Num(100000), vat_amount |-> Num(12000),
     vat_status |-> Str(<<"vatable">>), has_invoice_word |-> Bool(TRUE),
     has_serial_number |-> Bool(TRUE), has_qty_unit_desc |-> Bool(TRUE),
     has_vat_label |-> Bool(TRUE), has_exempt_label |-> Bool(FALSE),
     has_sales_breakdown |-> Bool(TRUE), signature_present |-> Bool(TRUE),
     form_2307_attached |-> Bool(TRUE), form_2307_consistent |-> Bool(TRUE),
     rag_validation |-> Undef, bir_atp |-> Bool(TRUE)])

\* SAMPLE_VALID_INVOICE of the validation test route
SAMPLE_VALID_INVOICE ==
  With(Absent,
    [invoice_number |-> Str(SSerial), invoice_date |-> Str(SPast), vendor_name |-> Str(SName),
     vendor_address |-> Str(SName), vendor_tin |-> Str(STin),
     vendor_business_style |-> Str(SName), customer_name |-> Str(SName),
     customer_address |-> Str(SName), customer_tin |-> Str(STin), total_amount |-> Num(112000),
     due_date |-> Str(SPast),
     line_items |-> Arr(<<Item(Num(1), Undef, Num(100000), Str(SName), Num(100000))>>),
     subtotal |-> Num(100000), vatable_sales |-> Num(100000), net_amount |-> Null,
     vat_amount |-> Num(12000), currency |-> Str(<<"PHP">>), invoice_type |-> Str(<<"services">>),
     vat_status |-> Str(<<"vatable">>), signature_present |-> Bool(TRUE),
     bir_atp |-> Bool(TRUE)])

\* SAMPLE_BIR_COMPLIANT_INVOICE of the BIR compliance test route: the legacy
\* field names only
SAMPLE_BIR_COMPLIANT_INVOICE ==
  With(Absent,
    [invoice_number |-> Str(SSerial), invoice_date |-> Str(SPast), vendor_name |-> Str(SName),
     vendor_address |-> Str(SName), vendor_tin |-> Str(STin), customer_name |-> Str(SName),
     customer_address |-> Str(SName), customer_tin |-> Str(STin), total_amount |-> Num(1120000),
     line_items |-> Arr(<<Item(Num(1), Undef, Num(1000000), Str(SName), Num(1000000)),
                          Item(Num(2), Undef, Num(60000), Str(SName), Num(120000))>>),
     subtotal |-> Num(1120000), vatable_sales |-> Num(1000000), vat_amount |-> Num(120000),
     currency |-> Str(<<"PHP">>), invoice_type |-> Str(<<"services">>),
     vat_status |-> Str(<<"vatable">>), signature_present |-> Bool(TRUE),
     bir_atp |-> Bool(TRUE)])

\* SAMPLE_PARTIAL_COMPLIANT_INVOICE: the second line item has no unit price
SAMPLE_PARTIAL_COMPLIANT_INVOICE ==
  With(Absent,
    [invoice_number |-> Str(SSerial), invoice_date |-> Str(SPast), vendor_name |-> Str(SName),
     vendor_address |-> Str(SName), vendor_tin |-> Str(STin), customer_name |-> Str(SName),
     customer_address |-> Str(SName), customer_tin |-> Str(STin), total_amount |-> Num(500000),
     line_items |-> Arr(<<Item(Num(1), Undef, Num(300000), Str(SName), Num(300000)),
                          Item(Num(1), Undef, Undef, Str(SName), Num(200000))>>),
     signature_present |-> Bool(TRUE), bir_atp |-> Bool(TRUE)])

\* the records the BIR compliance test route validates
TestRouteRecords == {SAMPLE_BIR_COMPLIANT_INVOICE, SAMPLE_PARTIAL_COMPLIANT_INVOICE}

TextSamples == {Str(SName), Str(SBlank), Null, Undef}
TinSamples  == {Str(STin), Str(STinPlain), Str(STinShort), Str(STinVat), Null}
DateSamples == {Str(SPast), Str(SOld), Str(SFuture), Str(SNoDate), Null}
FlagSamples == {Bool(TRUE), Bool(FALSE), Undef, Null}
AmountSamples == {Num(12000), Num(0), Num(0 - 500), Null, Undef}

BIRSamples ==
  [seller_registered_name |-> TextSamples, seller_tin |-> TinSamples \cup {Str(STinNon)},
   seller_address |-> TextSamples, invoice_word_present |-> FlagSamples,
   transaction_date |-> DateSamples, buyer_registered_name |-> TextSamples,
   buyer_address |-> TextSamples, buyer_tin |-> TinSamples,
   serial_number |-> {Str(SSerial), Str(SSerialLo), Str(SShort), Null},
   total_amount |-> {Num(112000), Num(0), Num(200000000), Null, Str(SName)},
   line_items |-> {Arr(q) : q \in SeqsUpTo(BIRItemSamples, MaxItems)} \cup {Null, Undef},
   document_control_type |-> {Str(<<"manual">>), Str(<<"system">>), Str(SName), Null},
   atp_ocn_number |-> {Str(SSerial), Str(<<>>), Null, Undef},
   ptu_accn_number |-> {Str(SSerial), Str(<<>>), Null, Undef},
   vat_registration_status |-> {Str(<<"vat_registered">>), Str(<<"non_vat_registered">>),
                                Str(<<"vatable">>), Null},
   vat_exempt_statement |-> FlagSamples,
   sales_subject_to_percentage_tax |-> AmountSamples, exempt_sales |-> AmountSamples,
   vatable_sales |-> AmountSamples, vat_amount |-> AmountSamples \cup {Num(20000)},
   zero_rated_sales |-> AmountSamples, vat_exempt_sales |-> AmountSamples,
   vat_exempt_indicator |-> FlagSamples, invoice_number |-> TextSamples \cup {Num(7)}]

StdSamples ==
  [invoice_number |-> TextSamples, invoice_date |-> DateSamples \cup {Undef},
   vendor_name |-> TextSamples, vendor_tin |-> TinSamples, customer_tin |-> TinSamples,
   total_amount |-> {Num(112000), Num(0), Null, Str(SName)},
   line_items |-> {Arr(q) : q \in SeqsUpTo(StdItemSamples, MaxItems)} \cup {Null},
   subtotal |-> {Num(100000), Num(100100), Num(100101), Num(0), Null},
   vatable_sales |-> AmountSamples, vat_amount |-> AmountSamples \cup {Num(12101)},
   vat_status |-> {Str(<<"vatable">>), Str(<<"non_vat">>), Str(SName), Null},
   has_invoice_word |-> FlagSamples, signature_present |-> FlagSamples,
   form_2307_attached |-> FlagSamples, form_2307_consistent |-> FlagSamples,
   rag_validation |-> {Obj, Undef, Null}, bir_atp |-> FlagSamples]

Edited(tpl, samples) ==
  LET E == UNION {{<<f, v>> : v \in samples[f]} : f \in DOMAIN samples}
  IN  {[f \in AllFields |-> IF f = e1[1] THEN e1[2] ELSE IF f = e2[1] THEN e2[2] ELSE tpl[f]] :
         e1 \in E, e2 \in E}

BIRRecords(tpl) == Edited(tpl, BIRSamples)
StdRecords(tpl) == Edited(tpl, StdSamples) \cup {SAMPLE_VALID_INVOICE}

BIRRuleSetNames == DOMAIN BIR_COMPLIANCE_RULE_SETS \cup {"standard_bir_compliance"}
StdRuleSetNames == DOMAIN VALIDATION_RULE_SETS \cup {"enhanced_invoice"}

(***************************************************************************)
(* SpecValidate: a validator is called on a record                         *)
(***************************************************************************)
NoCall == [fn |-> "none", ruleSetName |-> "none"]
NoResult == [kind |-> "none"]

IdleInvoices == <<>>
IdleReqs == <<>>
IdleDeployed == [validate |-> "none", serialized |-> FALSE]
IdleBatch == [pc |-> "idle"]
IdleConfigs == <<>>
IdleHttp == [method |-> "none"]
IdleUpload == [pc |-> "idle"]

InitValidate ==
  /\ record \in BIRRecords(TplVat) \cup BIRRecords(TplNonVat) \cup StdRecords(TplStd)
                  \cup TestRouteRecords
  /\ now = Today
  /\ call = NoCall
  /\ result = NoResult
  /\ previous = NoResult
  /\ ruleSets = BuiltInRuleSets
  /\ invoices = IdleInvoices
  /\ reqs = IdleReqs
  /\ deployed = IdleDeployed
  /\ batch = IdleBatch
  /\ validationConfigs = IdleConfigs
  /\ http = IdleHttp
  /\ upload = IdleUpload

CallValidateInvoiceData ==
  /\ call = NoCall
  /\ \E name \in StdRuleSetNames \cup DOMAIN ruleSets.std :
       /\ call' = [fn |-> "validateInvoiceData", ruleSetName |-> name]
       /\ result' = validateInvoiceData(record, name, now)
  /\ UNCHANGED <<record, now, previous, ruleSets, invoices, reqs, deployed, upload, batch, cfgVars>>

CallValidateBIRCompliance ==
  /\ call = NoCall
  /\ \E name \in BIRRuleSetNames \cup DOMAIN ruleSets.bir :
       /\ call' = [fn |-> "validateBIRCompliance", ruleSetName |-> name]
       /\ result' = validateBIRCompliance(record, name, now)
  /\ UNCHANGED <<record, now, previous, ruleSets, invoices, reqs, deployed, upload, batch, cfgVars>>

NextValidate == CallValidateInvoiceData \/ CallValidateBIRCompliance

SpecValidate == InitValidate /\ [][NextValidate]_vars

(***************************************************************************)
(* Claims about the validators (checked under SpecValidate)                *)
(***************************************************************************)
CalledBIR == call.fn = "validateBIRCompliance"
CalledStd == call.fn = "validateInvoiceData"
Returned  == result.kind = "result"
BIRRegistered == call.ruleSetName \in DOMAIN BIR_COMPLIANCE_RULE_SETS
StdRegistered == call.ruleSetName \in DOMAIN VALIDATION_RULE_SETS

\* C1: validateBIRCompliance returns isCompliant = true exactly when the score
\* is at least the rule set's minimumScore and the error list is empty; a
\* result that carries an error is never compliant, whatever its score.
C1_ComplianceGate ==
  (CalledBIR /\ Returned) =>
     /\ result.isCompliant <=>
          /\ BIRRegistered
          /\ result.score >= BIR_COMPLIANCE_RULE_SETS[call.ruleSetName].minimumScore
          /\ Len(result.errors) = 0
     /\ (Len(result.errors) > 0 => ~result.isCompliant)

\* a result whose score reaches the minimum but which carries an error
C1_Witness ==
  /\ CalledBIR /\ Returned /\ BIRRegistered
  /\ result.score >= BIR_COMPLIANCE_RULE_SETS[call.ruleSetName].minimumScore
  /\ Len(result.errors) > 0
  /\ ~result.isCompliant

\* every rule of the named BIR rule set passes its validator on the record
AllBIRRulesPass(name, data) ==
  \A i \in 1..Len(BIR_COMPLIANCE_RULE_SETS[name].rules) :
     LET r == BIR_COMPLIANCE_RULE_SETS[name].rules[i]
     IN  ApplyValidator(r.validator, data[r.field]) = "pass"

AllItemsComplete(data) ==
  /\ data.line_items.t = "arr"
  /\ Len(data.line_items.a) > 0
  /\ \A i \in 1..Len(data.line_items.a) : MissingFields(data.line_items.a[i]) = <<>>

\* C2: for every built-in BIR rule set, a schema-valid record that passes every
\* rule's validator, has at least one line item, all of them complete, and
\* breaks no cross-field check is compliant with score >= minimumScore.
C2_ValidRecordCompliant ==
  ( /\ CalledBIR /\ BIRRegistered
    /\ SchemaAccepts(BIRInvoiceDataSchema, record)
    /\ AllBIRRulesPass(call.ruleSetName, record)
    /\ AllItemsComplete(record)
    /\ performBIRBusinessRuleValidations(record).errors = <<>>
    /\ performBIRSpecificValidations(record, now).errors = <<>> )
  => /\ Returned
     /\ result.isCompliant
     /\ result.score >= BIR_COMPLIANCE_RULE_SETS[call.ruleSetName].minimumScore

AllStdRulesPass(name, data) ==
  \A i \in 1..Len(VALIDATION_RULE_SETS[name].rules) :
     LET r == VALIDATION_RULE_SETS[name].rules[i]
     IN  ApplyValidator(r.validator, data[r.field]) = "pass"

\* C3: for every predefined standard rule set, a record that satisfies every
\* rule of the set gets isValid = true and score = 100.
C3_ValidRecordPasses ==
  (CalledStd /\ StdRegistered /\ AllStdRulesPass(call.ruleSetName, record))
  => (Returned /\ result.isValid /\ result.score = 100)

SchemaOf(fn) == IF fn = "validateBIRCompliance" THEN BIRInvoiceDataSchema ELSE InvoiceDataSchema

\* C9: a record that fails the schema gets, whatever the rule-set name and
\* without any rule being evaluated, a structured result with the pass flag
\* false, score 0, no warnings, and exactly one error: field 'schema', critical.
C9_SchemaFailure ==
  ((CalledBIR \/ CalledStd) /\ ~SchemaAccepts(SchemaOf(call.fn), record))
  => /\ Returned
     /\ IF CalledBIR THEN ~result.isCompliant ELSE ~result.isValid
     /\ result.score = 0
     /\ result.warnings = <<>>
     /\ result.errors = <<[field |-> "schema", index |-> NoIndex, severity |-> "critical"]>>

\* a schema-invalid record validated under a rule-set name that is not registered
C9_Witness ==
  /\ CalledBIR \/ CalledStd
  /\ ~SchemaAccepts(SchemaOf(call.fn), record)
  /\ ~(BIRRegistered \/ StdRegistered)
  /\ Returned /\ result.score = 0

\* C10: for a record that passes the schema, a validator called with a
\* registered rule-set name returns a structured result and never throws;
\* called with a name that is not registered it throws.
C10_ThrowsOnlyOnUnknownRuleSet ==
  ((CalledBIR \/ CalledStd) /\ SchemaAccepts(SchemaOf(call.fn), record))
  => IF (CalledBIR /\ BIRRegistered) \/ (CalledStd /\ StdRegistered)
     THEN Returned
     ELSE result.kind = "throw"

\* a schema-valid record with content problems: a structured result with errors
C10_Witness ==
  /\ CalledBIR /\ BIRRegistered
  /\ SchemaAccepts(BIRInvoiceDataSchema, record)
  /\ record.seller_registered_name = Null
  /\ Returned /\ Len(result.errors) > 0

(***************************************************************************)
(* Stored invoices and the validate request POST /api/ai/invoice/$invoiceNo*)
(* Two versions of the route exist (part_017, part_018); deployed.validate *)
(* says which one serves.  A request is a sequence of steps separated by   *)
(* its awaits on the database and on the RAG service; the validators run   *)
(* between two awaits without yielding to another request.                 *)
(***************************************************************************)
MaxInvoices == 1
MaxRequests == 2

InvoiceIds == 1..MaxInvoices
Requests   == 1..MaxRequests

StatusFields == {"attachmentValidationStatus", "birValidationStatus",
                 "amountValidationStatus", "contractValidationStatus"}
statusForValidation == {"pending", "failed"}

\* an extraction both validators accept and pass
TplBoth ==
  With(TplStd,
    [seller_registered_name |-> Str(SName), seller_tin |-> Str(STin),
     seller_address |-> Str(SName), invoice_word_present |-> Bool(TRUE),
     transaction_date |-> Str(SPast), buyer_registered_name |-> Str(SName),
     buyer_address |-> Str(SName), buyer_tin |-> Str(STin), serial_number |-> Str(SSerial),
     line_items |-> Arr(<<Item(Num(2), Num(50000), Num(50000), Str(SName), Num(100000))>>),
     document_control_type |-> Str(<<"system">>), ptu_accn_number |-> Str(SSerial),
     vat_registration_status |-> Str(<<"vat_registered">>),
     vat_exempt_statement |-> Bool(TRUE), vat_amount |-> Num(0)])

\* what the extraction stored as parsedData
ParsedNames == {"both", "std", "no2307"}
ParsedSample(name) ==
  CASE name = "both"   -> TplBoth
    [] name = "std"    -> TplStd
    [] OTHER           -> With(TplBoth, [form_2307_attached |-> Bool(FALSE)])

\* the rag_validation key of parsedData
RagValue(rag) ==
  CASE rag = "none" -> Undef
    [] rag = "obj"  -> Obj
    [] OTHER        -> Num(5)

ParsedData(pd) == With(ParsedSample(pd.parsed), [rag_validation |-> RagValue(pd.rag)])

NoRow ==
  [exists |-> FALSE, status |-> [f \in StatusFields |-> "absent"],
   pd |-> [parsed |-> "both", rag |-> "none"]]

\* createInvoice, as the upload routes call it: every status 'pending'; the
\* older upload names no contractValidationStatus
NewRow(parsed, withContract) ==
  [exists |-> TRUE,
   status |-> [f \in StatusFields |->
                 IF f = "contractValidationStatus" /\ ~withContract THEN "absent" ELSE "pending"],
   pd |-> [parsed |-> parsed, rag |-> "none"]]

IdleReq ==
  [pc |-> "idle", id |-> 0, snap |-> [f \in StatusFields |-> "absent"],
   vs |-> [f \in StatusFields |-> "absent"], pd |-> [parsed |-> "both", rag |-> "none"],
   ran |-> {}, resp |-> 0, wrote |-> {}]

\* the answers of the RAG service after formatTextToJson: null when the text
\* is not JSON, else the parsed value
AiOutputs ==
  { [json |-> "null",   overall |-> "",         action |-> ""],
    [json |-> "scalar", overall |-> "",         action |-> ""],
    [json |-> "norec",  overall |-> "APPROVED", action |-> ""],
    [json |-> "object", overall |-> "APPROVED", action |-> "APPROVED"],
    [json |-> "object", overall |-> "APPROVED", action |-> "REQUIRES_REVIEW"],
    [json |-> "object", overall |-> "REJECTED", action |-> "REJECTED"] }

StatusOf(passed) == IF passed THEN "success" ELSE "failed"

\* documentValidationResult.isValid ? 'success' : 'failed'
AttachmentStatus(pd, today) ==
  StatusOf(validateInvoiceData(ParsedData(pd), "bir_invoice", today).isValid)

\* birComplianceResult.isCompliant ? 'success' : 'failed'
BirStatus(pd, today) ==
  StatusOf(validateBIRCompliance(ParsedData(pd), "official_bir_compliance", today).isCompliant)

InitInvoice ==
  /\ record = Absent
  /\ now = Today
  /\ call = NoCall
  /\ result = NoResult
  /\ previous = NoResult
  /\ ruleSets = BuiltInRuleSets
  /\ invoices = [i \in InvoiceIds |-> NoRow]
  /\ reqs = [r \in Requests |-> IdleReq]
  /\ deployed \in [validate : {"part_017", "part_018"}, serialized : BOOLEAN]
  /\ batch = IdleBatch
  /\ validationConfigs = IdleConfigs
  /\ http = IdleHttp
  /\ upload = IdleUpload

\* POST /api/document-upload/invoice, up to createInvoice
UploadInvoice ==
  \E i \in InvoiceIds, parsed \in ParsedNames, withContract \in BOOLEAN :
    /\ ~invoices[i].exists
    /\ invoices' = [invoices EXCEPT ![i] = NewRow(parsed, withContract)]
    /\ UNCHANGED <<reqs, deployed, upload, valVars, batch, cfgVars>>

\* the handler returns: its locals are gone, the response remains
Finished(q, code, wrote) == [IdleReq EXCEPT !.id = q.id, !.resp = code, !.wrote = wrote]

Respond(r, code) == [reqs EXCEPT ![r] = Finished(@, code, @.wrote)]

\* a request arrives; callers that serialize send none while another runs
StartRequest(r) ==
  /\ reqs[r].pc = "idle"
  /\ deployed.serialized => \A q \in Requests : reqs[q].pc = "idle"
  /\ \E i \in InvoiceIds : reqs' = [reqs EXCEPT ![r] = [IdleReq EXCEPT !.pc = "read", !.id = i]]
  /\ UNCHANGED <<invoices, deployed, upload, valVars, batch, cfgVars>>

\* an awaited call rejects: the catch block answers 500
AwaitThrows(r) ==
  /\ reqs[r].pc \in {"read", "ai", "write", "writeAttachment", "writeBir"}
  /\ reqs' = Respond(r, 500)
  /\ UNCHANGED <<invoices, deployed, upload, valVars, batch, cfgVars>>

GuardDocument(snap) ==
  IF deployed.validate = "part_017"
  THEN snap.attachmentValidationStatus \in statusForValidation
  ELSE \/ snap.attachmentValidationStatus \in statusForValidation
       \/ snap.birValidationStatus \in statusForValidation

GuardBir(snap) ==
  IF deployed.validate = "part_017"
  THEN snap.birValidationStatus \in statusForValidation
  ELSE GuardDocument(snap)

GuardAmount(snap) ==
  IF deployed.validate = "part_017"
  THEN snap.amountValidationStatus \in statusForValidation
  ELSE \/ snap.contractValidationStatus \in statusForValidation
       \/ snap.amountValidationStatus \in statusForValidation

\* getInvoice resolves; the code up to the next await runs
ReadInvoice(r) ==
  LET q    == reqs[r]
      row  == invoices[q.id]
      snap == row.status
      att  == IF GuardDocument(snap) THEN AttachmentStatus(row.pd, now)
              ELSE snap.attachmentValidationStatus
      bir  == IF GuardBir(snap) THEN BirStatus(row.pd, now) ELSE snap.birValidationStatus
      ran  == (IF GuardDocument(snap) THEN {"attachmentValidationStatus"} ELSE {})
              \cup (IF GuardBir(snap) /\ deployed.validate = "part_017"
                    THEN {"birValidationStatus"} ELSE {})
  IN  /\ q.pc = "read"
      /\ IF ~row.exists THEN reqs' = Respond(r, 400)
         ELSE IF deployed.validate = "part_017"
         THEN reqs' = [reqs EXCEPT ![r].snap = snap, ![r].pd = row.pd, ![r].ran = ran,
                         ![r].vs = [snap EXCEPT !.attachmentValidationStatus = att,
                                                !.birValidationStatus = bir],
                         ![r].pc = IF GuardAmount(snap) THEN "ai" ELSE "write"]
         ELSE IF ~GuardDocument(snap) /\ ~GuardAmount(snap) THEN reqs' = Respond(r, 200)
         ELSE reqs' = [reqs EXCEPT ![r].snap = snap, ![r].pd = row.pd, ![r].ran = ran,
                         ![r].vs = snap,
                         ![r].pc = IF GuardDocument(snap) THEN "writeAttachment" ELSE "ai"]
      /\ UNCHANGED <<invoices, deployed, upload, valVars, batch, cfgVars>>

\* part_018: updateInvoiceById({attachmentValidationStatus}); then the BIR
\* validator runs on the parsedData read at the start
WriteAttachment(r) ==
  LET q == reqs[r]
      f == "attachmentValidationStatus"
  IN  /\ q.pc = "writeAttachment"
      /\ invoices' = [invoices EXCEPT ![q.id].status[f] = AttachmentStatus(q.pd, now)]
      /\ reqs' = [reqs EXCEPT ![r].pc = "writeBir", ![r].wrote = @ \cup {f},
                              ![r].ran = @ \cup {"birValidationStatus"}]
      /\ UNCHANGED <<deployed, upload, valVars, batch, cfgVars>>

\* part_018: updateInvoiceById({birValidationStatus})
WriteBir(r) ==
  LET q == reqs[r]
      f == "birValidationStatus"
  IN  /\ q.pc = "writeBir"
      /\ invoices' = [invoices EXCEPT ![q.id].status[f] = BirStatus(q.pd, now)]
      /\ reqs' = IF GuardAmount(q.snap)
                 THEN [reqs EXCEPT ![r].pc = "ai", ![r].wrote = @ \cup {f}]
                 ELSE [reqs EXCEPT ![r] = Finished(@, 200, @.wrote \cup {f})]
      /\ UNCHANGED <<deployed, upload, valVars, batch, cfgVars>>

RagOf(out) == IF out.json = "scalar" THEN "scalar" ELSE "obj"

\* sendMessage resolves and formatTextToJson parses the answer
AiAnswer(r) ==
  LET q == reqs[r]
  IN  /\ q.pc = "ai"
      /\ \E out \in AiOutputs :
           reqs' =
             IF out.json = "null" THEN Respond(r, 400)
             \* part_018 reads aiOutput.recommendations.action_required
             ELSE IF deployed.validate = "part_018" /\ out.json \in {"scalar", "norec"}
             THEN Respond(r, 500)
             ELSE [reqs EXCEPT
                     ![r].pc = "write",
                     ![r].pd = [q.pd EXCEPT !.rag = RagOf(out)],
                     ![r].ran = @ \cup {"amountValidationStatus"}
                                  \cup (IF deployed.validate = "part_018"
                                        THEN {"contractValidationStatus"} ELSE {}),
                     ![r].vs = [q.vs EXCEPT
                        !.amountValidationStatus = StatusOf(out.overall = "APPROVED"),
                        !.contractValidationStatus =
                           IF deployed.validate = "part_018"
                           THEN StatusOf(out.action = "APPROVED") ELSE @]]
      /\ UNCHANGED <<invoices, deployed, upload, valVars, batch, cfgVars>>

\* mutant: updateInvoice puts the attachment status back to its initial value
updateInvoiceResetsAttachment(row, data, route) ==
  [row EXCEPT !.pd = data.pd,
              !.status.amountValidationStatus = data.vs.amountValidationStatus,
              !.status.attachmentValidationStatus = "pending"]

\* updateInvoice: parsedData and three status columns; a column whose value is
\* undefined in data (part_018 passes no attachment / BIR status) is left alone
updateInvoice(row, data, route) ==
  IF route = "part_017"
  THEN [row EXCEPT !.pd = data.pd,
                   !.status.attachmentValidationStatus = data.vs.attachmentValidationStatus,
                   !.status.amountValidationStatus = data.vs.amountValidationStatus,
                   !.status.birValidationStatus = data.vs.birValidationStatus]
  ELSE [row EXCEPT !.pd = data.pd,
                   !.status.amountValidationStatus = data.vs.amountValidationStatus]

WriteInvoice(r) ==
  LET q == reqs[r]
  IN  /\ q.pc = "write"
      /\ invoices' = [invoices EXCEPT ![q.id] = updateInvoice(@, q, deployed.validate)]
      /\ reqs' = [reqs EXCEPT ![r] = Finished(@, 200,
                    @.wrote \cup (IF deployed.validate = "part_017"
                                  THEN StatusFields \ {"contractValidationStatus"}
                                  ELSE {"amountValidationStatus"}))]
      /\ UNCHANGED <<deployed, upload, valVars, batch, cfgVars>>

NextInvoice ==
  \/ UploadInvoice
  \/ \E r \in Requests :
       \/ StartRequest(r)
       \/ AwaitThrows(r)
       \/ ReadInvoice(r)
       \/ WriteAttachment(r)
       \/ WriteBir(r)
       \/ AiAnswer(r)
       \/ WriteInvoice(r)

SpecInvoice == InitInvoice /\ [][NextInvoice]_vars

(***************************************************************************)
(* Claims about the stored status fields                                   *)
(***************************************************************************)
StatusValues == {"pending", "success", "failed"}

\* the column is not part of the row: the upload did not name it
ColumnMissing(row, f) == f = "contractValidationStatus" /\ row.status[f] = "absent"

SuccessKept ==
  \A i \in InvoiceIds, f \in StatusFields :
    invoices[i].status[f] = "success" => invoices'[i].status[f] = "success"

StepOnlyWhenOpen ==
  \A r \in Requests : \A f \in reqs[r].ran :
    reqs[r].snap[f] # "absent" => reqs[r].snap[f] \in statusForValidation

\* C4: with validate requests served one after the other, a status field that
\* holds 'success' is never changed by a step, and a request runs the
\* validation step of a field only if it read that field as 'pending' or
\* 'failed'.
C4_SuccessIsFinal ==
  [][deployed.serialized => (SuccessKept /\ StepOnlyWhenOpen')]_vars

\* C5: every status field of a stored invoice is 'pending', 'success' or
\* 'failed'; a created invoice has every status 'pending'; a step that changes
\* a status of a stored invoice sets it to 'success' or 'failed'; a status
\* that has left 'pending' never returns to it.
C5_StatusLifecycle ==
  [][\A i \in InvoiceIds, f \in StatusFields :
       LET old == invoices[i]
           new == invoices'[i]
       IN  /\ new.exists /\ ~ColumnMissing(new, f) => new.status[f] \in StatusValues
           /\ ~old.exists /\ new.exists /\ ~ColumnMissing(new, f) => new.status[f] = "pending"
           /\ old.exists => new.exists
           /\ old.exists /\ old.status[f] # new.status[f] => new.status[f] \in {"success", "failed"}
           /\ old.exists /\ old.status[f] # "pending" => new.status[f] # "pending"]_vars

\* a request has answered after writing its verdicts on an invoice: one field
\* succeeded, two failed
C5_Witness ==
  \E i \in InvoiceIds :
    /\ invoices[i].exists
    /\ invoices[i].status.attachmentValidationStatus = "success"
    /\ invoices[i].status.birValidationStatus = "failed"
    /\ invoices[i].status.amountValidationStatus = "failed"
    /\ invoices[i].pd.rag # "none"
    /\ \E r \in Requests :
         /\ reqs[r].id = i /\ reqs[r].resp = 200
         /\ "amountValidationStatus" \in reqs[r].wrote

(***************************************************************************)
(* Batch validation: POST /api/document/batch-validate and                 *)
(* POST /api/document/batch-bir-compliance.  One request per behaviour;    *)
(* a step is what runs between two awaits of the handler or of one of the  *)
(* per-document callbacks of chunk.map.                                    *)
(***************************************************************************)
MaxBatchDocuments == 50
MaxBIRBatchDocuments == 25
generalConcurrencyLimit == 5
birConcurrencyLimit == 3

BatchCap(route) == IF route = "bir" THEN MaxBIRBatchDocuments ELSE MaxBatchDocuments
concurrencyLimit(route) == IF route = "bir" THEN birConcurrencyLimit ELSE generalConcurrencyLimit

\* mutant: the cap rejects a batch of exactly the maximum size
ExceedsCapInclusive(n, route) == n >= BatchCap(route)

\* documentIds.length > 50 (general) / > 25 (BIR)
ExceedsCap(n, route) == n > BatchCap(route)

\* what Paperless and the extraction model hold for a document id
DocNature(docId) ==
  CASE docId = 1 -> "missing"     \* getDocument rejects
    [] docId = 2 -> "nocontent"   \* document without OCR content
    [] docId = 3 -> "stored"      \* has extracted data
    [] docId = 4 -> "fresh"       \* extraction returns a valid record
    [] docId = 5 -> "garbled"     \* extraction returns a record the schema rejects
    [] docId = 6 -> "aifail"      \* generateObject rejects
    [] docId = 8 -> "deficient"   \* has extracted data that lacks six fields
    [] docId = 9 -> "lacking"     \* has extracted data that lacks two fields
    [] OTHER     -> "flaky"       \* getDocument rejects or not

\* the documents whose fetch has one outcome, repeated to fill a large batch
SteadyDocs == <<1, 2, 3, 4, 5, 6>>
RoundRobin(n) == [i \in 1..n |-> SteadyDocs[((i - 1) % Len(SteadyDocs)) + 1]]

DocumentLists(route) ==
  { <<>>, <<7, 4, 7, 3>>, <<4, 7, 1, 7, 5, 3, 7>>, <<8, 9, 9, 4>>,
    RoundRobin(BatchCap(route)), RoundRobin(BatchCap(route) + 1) }

\* extractions that parse and fail rules of both validators
Deficient ==
  With(TplBoth,
    [seller_address |-> Null, buyer_registered_name |-> Null, buyer_address |-> Null,
     buyer_tin |-> Null, serial_number |-> Null, total_amount |-> Null])
Lacking == With(TplBoth, [serial_number |-> Null, total_amount |-> Null])

\* result.object / document.extracted_data of a document
ExtractedData(route, docId) ==
  IF DocNature(docId) = "deficient" THEN Deficient
  ELSE IF DocNature(docId) = "lacking" THEN Lacking
  ELSE IF DocNature(docId) = "garbled" THEN (IF route = "bir" THEN TplStd ELSE TplVat)
  ELSE IF DocNature(docId) = "fresh" THEN (IF route = "bir" THEN TplVat ELSE TplStd)
  ELSE TplBoth

NoScore == 0 - 1

\* the object returned for a document that could not be processed
ErrorResult(route, docId) ==
  [documentId |-> docId, success |-> FALSE,
   complianceStatus |-> IF route = "bir" THEN "ERROR" ELSE "",
   isValid |-> FALSE, score |-> NoScore, errors |-> <<>>]

\* the object returned for a validated document
SuccessResult(route, docId, v, complianceThreshold) ==
  IF route = "bir"
  THEN LET isCompliant == IF complianceThreshold # 0 /\ v.score < complianceThreshold
                          THEN FALSE ELSE v.isCompliant
       IN  [documentId |-> docId, success |-> TRUE,
            complianceStatus |-> IF isCompliant THEN "BIR_COMPLIANT" ELSE "BIR_NON_COMPLIANT",
            isValid |-> v.isCompliant, score |-> v.score, errors |-> v.errors]
  ELSE [documentId |-> docId, success |-> TRUE, complianceStatus |-> "",
        isValid |-> v.isValid, score |-> v.score, errors |-> v.errors]

\* the validator call of a per-document callback and the object it returns;
\* a throw lands in the callback's catch
Validated(b, docId, today) ==
  LET data == ExtractedData(b.route, docId)
      v    == IF b.route = "bir" THEN validateBIRCompliance(data, b.ruleSetName, today)
              ELSE validateInvoiceData(data, b.ruleSetName, today)
  IN  IF v = Thrown THEN ErrorResult(b.route, docId)
      ELSE SuccessResult(b.route, docId, v, b.complianceThreshold)

Pending == [documentId |-> 0, success |-> FALSE, complianceStatus |-> "", isValid |-> FALSE,
            score |-> NoScore, errors |-> <<>>]

\* no summary has been computed
NoSummary == [totalDocuments |-> 0]

NoCalls == [getDocument |-> 0, generateObject |-> 0, validator |-> 0]

BatchRequests ==
  [pc : {"received"}, route : {"general"}, documentIds : DocumentLists("general"),
   forceReExtraction : BOOLEAN, ruleSetName : {"bir_invoice", "standard_invoice", "po_custom"},
   complianceThreshold : {0}, chunkStart : {0}, slots : {<<>>}, results : {<<>>},
   calls : {NoCalls}, started : {{}}, settled : {{}}, failed : {{}}, status : {0},
   summary : {NoSummary}]
  \cup
  [pc : {"received"}, route : {"bir"}, documentIds : DocumentLists("bir"),
   forceReExtraction : BOOLEAN,
   ruleSetName : {"official_bir_compliance", "standard_bir_compliance"},
   complianceThreshold : {0, 101}, chunkStart : {0}, slots : {<<>>}, results : {<<>>},
   calls : {NoCalls}, started : {{}}, settled : {{}}, failed : {{}}, status : {0},
   summary : {NoSummary}]

InitBatch ==
  /\ record = Absent
  /\ now = Today
  /\ call = NoCall
  /\ result = NoResult
  /\ previous = NoResult
  /\ ruleSets = BuiltInRuleSets
  /\ invoices = IdleInvoices
  /\ reqs = IdleReqs
  /\ deployed = IdleDeployed
  /\ batch \in BatchRequests
  /\ validationConfigs = IdleConfigs
  /\ http = IdleHttp
  /\ upload = IdleUpload

Min(a, b) == IF a < b THEN a ELSE b

\* documentIds.slice(i, i + concurrencyLimit)
Chunk(documentIds, i, limit) == SubSeq(documentIds, i + 1, Min(i + limit, Len(documentIds)))

\* chunk.map(async (docId) => ...): every callback runs up to its getDocument
StartedChunk(b, i) ==
  LET chunk == Chunk(b.documentIds, i, concurrencyLimit(b.route))
  IN  [b EXCEPT !.pc = "running", !.chunkStart = i,
                !.slots = [k \in 1..Len(chunk) |->
                             [docId |-> chunk[k], pc |-> "getDocument", result |-> Pending]],
                !.started = @ \cup {i + k : k \in 1..Len(chunk)},
                !.calls.getDocument = @ + Len(chunk)]

\* !documentIds || !Array.isArray(documentIds) || documentIds.length === 0
RejectEmpty ==
  /\ batch.pc = "received"
  /\ Len(batch.documentIds) = 0
  /\ batch' = [batch EXCEPT !.pc = "responded", !.status = 400]
  /\ UNCHANGED <<valVars, invVars, deployed, upload, cfgVars>>

RejectTooMany ==
  /\ batch.pc = "received"
  /\ Len(batch.documentIds) # 0
  /\ ExceedsCap(Len(batch.documentIds), batch.route)
  /\ batch' = [batch EXCEPT !.pc = "responded", !.status = 400]
  /\ UNCHANGED <<valVars, invVars, deployed, upload, cfgVars>>

StartBatch ==
  /\ batch.pc = "received"
  /\ Len(batch.documentIds) # 0
  /\ ~ExceedsCap(Len(batch.documentIds), batch.route)
  /\ batch' = StartedChunk(batch, 0)
  /\ UNCHANGED <<valVars, invVars, deployed, upload, cfgVars>>

Settle(b, k, res, didFail, didValidate) ==
  [b EXCEPT !.slots[k].pc = "done", !.slots[k].result = res,
            !.settled = @ \cup {b.chunkStart + k},
            !.failed = IF didFail THEN @ \cup {b.chunkStart + k} ELSE @,
            !.calls.validator = @ + (IF didValidate THEN 1 ELSE 0)]

\* the documents whose document.extracted_data / bir_extracted_data is set
HasExtractedData == {"stored", "flaky", "deficient", "lacking"}

\* getDocument of slot k settles; the callback runs to its next await or return
GetDocumentSettles(k) ==
  LET slot   == batch.slots[k]
      nature == DocNature(slot.docId)
      res    == Validated(batch, slot.docId, now)
  IN  /\ batch.pc = "running"
      /\ k \in 1..Len(batch.slots)
      /\ slot.pc = "getDocument"
      /\ \/ /\ nature \in {"missing", "nocontent", "flaky"}
            /\ batch' = Settle(batch, k, ErrorResult(batch.route, slot.docId), TRUE, FALSE)
         \/ /\ nature \in HasExtractedData
            /\ ~batch.forceReExtraction
            /\ batch' = Settle(batch, k, res, ~res.success, TRUE)
         \/ /\ \/ nature \in {"fresh", "garbled", "aifail"}
               \/ nature \in HasExtractedData /\ batch.forceReExtraction
            /\ batch' = [batch EXCEPT !.slots[k].pc = "generateObject",
                                      !.calls.generateObject = @ + 1]
      /\ UNCHANGED <<valVars, invVars, deployed, upload, cfgVars>>

\* generateObject of slot k settles; the validator runs and the callback returns
GenerateObjectSettles(k) ==
  LET slot == batch.slots[k]
      res  == Validated(batch, slot.docId, now)
  IN  /\ batch.pc = "running"
      /\ k \in 1..Len(batch.slots)
      /\ slot.pc = "generateObject"
      /\ IF DocNature(slot.docId) = "aifail"
         THEN batch' = Settle(batch, k, ErrorResult(batch.route, slot.docId), TRUE, FALSE)
         ELSE batch' = Settle(batch, k, res, ~res.success, TRUE)
      /\ UNCHANGED <<valVars, invVars, deployed, upload, cfgVars>>

\* mutant: the loop goes on as soon as one promise of the chunk has settled
ChunkSettledAny(slots) == \E k \in 1..Len(slots) : slots[k].pc = "done"

\* await Promise.all(chunkPromises): no callback rejects, so it resolves when
\* every callback has returned
ChunkSettled(slots) == \A k \in 1..Len(slots) : slots[k].pc = "done"

\* mutant: results.push(...chunkResults.filter(r => r.success))
PushResultsOfSuccess(results, slots) ==
  results \o SelectSeq([k \in 1..Len(slots) |-> slots[k].result], LAMBDA r : r.success)

\* results.push(...chunkResults): Promise.all keeps the order of the chunk
PushResults(results, slots) == results \o [k \in 1..Len(slots) |-> slots[k].result]

NextChunk ==
  LET i == batch.chunkStart + concurrencyLimit(batch.route)
  IN  /\ batch.pc = "running"
      /\ ChunkSettled(batch.slots)
      /\ i < Len(batch.documentIds)
      /\ batch' = StartedChunk([batch EXCEPT !.results = PushResults(@, batch.slots)], i)
      /\ UNCHANGED <<valVars, invVars, deployed, upload, cfgVars>>

\* the keys of commonIssues, in the order the tally inserts them
RECURSIVE IssueKeys(_)
IssueKeys(errors) ==
  IF errors = <<>> THEN <<>>
  ELSE LET front == IssueKeys(SubSeq(errors, 1, Len(errors) - 1))
           key   == [field |-> errors[Len(errors)].field, index |-> errors[Len(errors)].index]
       IN  IF \E k \in 1..Len(front) : front[k] = key THEN front ELSE Append(front, key)

\* results.forEach(result => result.birCompliance.errors.forEach(... + 1)),
\* read with Object.entries
CommonIssues(results) ==
  LET errors == FlatSeq([i \in 1..Len(results) |-> results[i].errors])
      keys   == IssueKeys(errors)
  IN  [k \in 1..Len(keys) |->
         [field |-> keys[k].field, index |-> keys[k].index,
          occurrences |-> Cardinality({e \in 1..Len(errors) :
                                         /\ errors[e].field = keys[k].field
                                         /\ errors[e].index = keys[k].index})]]

\* mutant: the entries are left in insertion order
SortByOccurrencesUnsorted(entries) == entries

\* .sort(([,a], [,b]) => b - a): stable, larger counts first
RECURSIVE SortByOccurrences(_)
SortByOccurrences(entries) ==
  IF entries = <<>> THEN <<>>
  ELSE LET front == SortByOccurrences(SubSeq(entries, 1, Len(entries) - 1))
           e     == entries[Len(entries)]
           n     == Cardinality({k \in 1..Len(front) : front[k].occurrences >= e.occurrences})
       IN  SubSeq(front, 1, n) \o <<e>> \o SubSeq(front, n + 1, Len(front))

TopIssues == 5

\* .slice(0, 5)
Slice(q, n) == SubSeq(q, 1, Min(n, Len(q)))

\* Math.round(sum / n) of non-negative scores
RoundDiv(sum, n) == (2 * sum + n) \div (2 * n)

\* the summary of the general route
ValidationSummary(documentIds, results) ==
  LET successfulValidations ==
        {i \in 1..Len(results) : results[i].success /\ results[i].isValid}
      failedValidations ==
        {i \in 1..Len(results) : results[i].success /\ ~results[i].isValid}
      processingErrors == {i \in 1..Len(results) : ~results[i].success}
  IN  [totalDocuments |-> Len(documentIds),
       successfulValidations |-> Cardinality(successfulValidations),
       failedValidations |-> Cardinality(failedValidations),
       processingErrors |-> Cardinality(processingErrors),
       validationPassRate |-> RoundPct(Cardinality(successfulValidations), Len(documentIds))]

\* the summary of the BIR route
BIRSummary(documentIds, results) ==
  LET WithStatus(st) == {i \in 1..Len(results) : results[i].complianceStatus = st}
      validResults   == SelectSeq(results, LAMBDA r : r.score # NoScore)
  IN  [totalDocuments |-> Len(documentIds),
       compliantDocuments |-> Cardinality(WithStatus("BIR_COMPLIANT")),
       nonCompliantDocuments |-> Cardinality(WithStatus("BIR_NON_COMPLIANT")),
       errorDocuments |-> Cardinality(WithStatus("ERROR")),
       complianceRate |-> RoundPct(Cardinality(WithStatus("BIR_COMPLIANT")), Len(documentIds)),
       averageComplianceScore |->
         IF Len(validResults) > 0
         THEN RoundDiv(SumSeq([i \in 1..Len(validResults) |-> validResults[i].score]),
                       Len(validResults))
         ELSE 0,
       commonComplianceIssues |->
         Slice(SortByOccurrences(CommonIssues(results)), TopIssues)]

Summary(route, documentIds, results) ==
  IF route = "bir" THEN BIRSummary(documentIds, results)
  ELSE ValidationSummary(documentIds, results)

RespondBatch ==
  /\ batch.pc = "running"
  /\ ChunkSettled(batch.slots)
  /\ batch.chunkStart + concurrencyLimit(batch.route) >= Len(batch.documentIds)
  /\ batch' = [batch EXCEPT !.pc = "responded", !.status = 200, !.slots = <<>>,
                            !.results = PushResults(@, batch.slots),
                            !.summary = Summary(batch.route, batch.documentIds,
                                                PushResults(batch.results, batch.slots))]
  /\ UNCHANGED <<valVars, invVars, deployed, upload, cfgVars>>

NextBatch ==
  \/ RejectEmpty
  \/ RejectTooMany
  \/ StartBatch
  \/ \E k \in 1..generalConcurrencyLimit : GetDocumentSettles(k) \/ GenerateObjectSettles(k)
  \/ NextChunk
  \/ RespondBatch

SpecBatch == InitBatch /\ [][NextBatch]_vars

(***************************************************************************)
(* Claims about the batch handlers                                         *)
(***************************************************************************)
Submitted == Len(batch.documentIds)
Responded == batch.pc = "responded"

\* C6: a batch with more ids than the cap (50 general, 25 BIR) is never
\* processed: it makes no getDocument, generateObject or validator call, and
\* its response is 400; a batch of exactly the cap, once answered, has status
\* 200 with a fetch and a result for each of its ids.
C6_CapBeforeProcessing ==
  /\ Submitted > BatchCap(batch.route) =>
       /\ batch.calls = NoCalls
       /\ batch.started = {}
       /\ batch.results = <<>>
       /\ Responded => batch.status = 400
  /\ Submitted = BatchCap(batch.route) /\ Responded =>
       /\ batch.status = 200
       /\ batch.calls.getDocument = Submitted
       /\ Len(batch.results) = Submitted

\* a batch of cap + 1 documents has been answered
C6_Witness ==
  /\ Responded
  /\ Submitted = BatchCap(batch.route) + 1
  /\ batch.status = 400

\* the result a document gets when it does not fail
SoloResult(i) == Validated(batch, batch.documentIds[i], now)

\* C7: an accepted batch is answered with status 200 and one result per
\* submitted id, in submission order; the result of a document that failed
\* (fetch rejected, no content, extraction rejected, validator threw) has
\* success = false (BIR: complianceStatus 'ERROR'), and the result of every
\* other document is what that document yields on its own.
C7_FailureIsolation ==
  Responded /\ Submitted > 0 /\ Submitted <= BatchCap(batch.route) =>
    /\ batch.status = 200
    /\ Len(batch.results) = Submitted
    /\ \A i \in 1..Submitted :
         /\ batch.results[i].documentId = batch.documentIds[i]
         /\ i \in batch.failed =>
              /\ ~batch.results[i].success
              /\ batch.route = "bir" => batch.results[i].complianceStatus = "ERROR"
         /\ i \notin batch.failed =>
              /\ batch.results[i].success
              /\ batch.results[i] = SoloResult(i)

\* a two-chunk batch answered after its first and some later document failed
\* while others were validated
C7_Witness ==
  /\ Responded
  /\ batch.status = 200
  /\ Submitted > concurrencyLimit(batch.route)
  /\ 1 \in batch.failed
  /\ \E i \in batch.failed : i > concurrencyLimit(batch.route)
  /\ \E i \in 1..Submitted : i \notin batch.failed /\ batch.results[i].isValid

InFlight == batch.started \ batch.settled
ChunkIndex(i) == (i - 1) \div concurrencyLimit(batch.route)

\* C8: at most concurrencyLimit (5 general, 3 BIR) per-document callbacks are
\* in flight, and a document is started only after every document of the
\* earlier chunks has returned its result.
C8_ChunkedConcurrency ==
  /\ Cardinality(InFlight) <= concurrencyLimit(batch.route)
  /\ \A i \in batch.started : \A j \in 1..Submitted :
       ChunkIndex(j) < ChunkIndex(i) => j \in batch.settled /\ j <= Len(batch.results)

\* the second chunk is in flight after a document of the first chunk failed
C8_Witness ==
  /\ batch.pc = "running"
  /\ batch.chunkStart = concurrencyLimit(batch.route)
  /\ Cardinality(InFlight) = concurrencyLimit(batch.route)
  /\ \E i \in batch.failed : i <= concurrencyLimit(batch.route)

(***************************************************************************)
(* Claims about the BIR business rules                                     *)
(***************************************************************************)
HasError(errors, f) == \E k \in 1..Len(errors) : errors[k].field = f /\ errors[k].severity = "critical"

\* a call of validateBIRCompliance on a schema-valid record under a registered
\* rule set has returned
BIRChecked ==
  CalledBIR /\ Returned /\ BIRRegistered /\ SchemaAccepts(BIRInvoiceDataSchema, record)

ParsedRecord == Parsed(BIRInvoiceDataSchema, record, BIRItemFields)

\* C11: a schema-valid record with vat_registration_status 'vat_registered'
\* and a vat_amount other than zero gets, under every rule set, at least one
\* critical error and isCompliant = false.
C11_VatAmountOnVatRegistered ==
  /\ BIRChecked
  /\ IsStr(record.vat_registration_status, <<"vat_registered">>)
  /\ record.vat_amount.t = "num" /\ record.vat_amount.n # 0
  => /\ \E k \in 1..Len(result.errors) : result.errors[k].severity = "critical"
     /\ ~result.isCompliant

NoNumber(v) == v.t \in {"null", "undef"} \/ v = Str(<<>>)

\* C13: a 'manual' record without atp_ocn_number (a 'system' record without
\* ptu_accn_number) gets a critical error on that field and isCompliant =
\* false under every rule set; when the number of the declared type is given,
\* no error on a control-number field is reported.
C13_DocumentControl ==
  BIRChecked =>
    /\ IsStr(record.document_control_type, <<"manual">>) =>
         IF NoNumber(record.atp_ocn_number)
         THEN HasError(result.errors, "atp_ocn_number") /\ ~result.isCompliant
         ELSE ~HasError(result.errors, "atp_ocn_number")
              /\ ~HasError(result.errors, "ptu_accn_number")
    /\ IsStr(record.document_control_type, <<"system">>) =>
         IF NoNumber(record.ptu_accn_number)
         THEN HasError(result.errors, "ptu_accn_number") /\ ~result.isCompliant
         ELSE ~HasError(result.errors, "ptu_accn_number")
              /\ ~HasError(result.errors, "atp_ocn_number")

\* an otherwise perfect manual invoice without its ATP/OCN number
C13_Witness ==
  /\ BIRChecked
  /\ call.ruleSetName = "official_bir_compliance"
  /\ IsStr(record.document_control_type, <<"manual">>)
  /\ record.atp_ocn_number.t = "null"
  /\ result.score = 100
  /\ Len(result.errors) = 1
  /\ ~result.isCompliant

(***************************************************************************)
(* Validation configuration registry                                       *)
(***************************************************************************)
LowerCase == <<"a", "b", "c", "d", "e", "f", "g", "h", "i", "j", "k", "l", "m",
               "n", "o", "p", "q", "r", "s", "t", "u", "v", "w", "x", "y", "z">>
UpperCase == <<"A", "B", "C", "D", "E", "F", "G", "H", "I", "J", "K", "L", "M",
               "N", "O", "P", "Q", "R", "S", "T", "U", "V", "W", "X", "Y", "Z">>

\* c.toLowerCase()
toLowerCase(c) ==
  IF \E i \in 1..Len(UpperCase) : UpperCase[i] = c
  THEN LowerCase[CHOOSE i \in 1..Len(UpperCase) : UpperCase[i] = c]
  ELSE c

\* [a-z0-9]
IsSlugChar(c) == c \in Digits \/ \E i \in 1..Len(LowerCase) : LowerCase[i] = c

\* .replace(/_+/g, '_')
RECURSIVE CollapseUnderscores(_)
CollapseUnderscores(s) ==
  IF Len(s) < 2 THEN s
  ELSE IF s[1] = "_" /\ s[2] = "_" THEN CollapseUnderscores(Tail(s))
  ELSE <<s[1]>> \o CollapseUnderscores(Tail(s))

\* .replace(/^_|_$/g, '')
StripEdgeUnderscores(s) ==
  LET a == IF s # <<>> /\ Head(s) = "_" THEN Tail(s) ELSE s
  IN  IF a # <<>> /\ a[Len(a)] = "_" THEN SubSeq(a, 1, Len(a) - 1) ELSE a

generateConfigId(name) ==
  StripEdgeUnderscores(CollapseUnderscores(
    [i \in 1..Len(name) |->
       IF IsSlugChar(toLowerCase(name[i])) THEN toLowerCase(name[i]) ELSE "_"]))

ValidationRule(f, msg) ==
  [field |-> Str(f), required |-> TRUE, errorMessage |-> Str(msg)]

StandardInvoiceId == <<"s", "t", "a", "n", "d", "a", "r", "d", "_", "i", "n", "v", "o", "i", "c", "e">>
GovernmentInvoiceId == <<"g", "o", "v", "e", "r", "n", "m", "e", "n", "t", "_", "i", "n", "v", "o", "i", "c", "e">>

\* the registry as the module creates it
InitialValidationConfigs ==
  << [id |-> Str(StandardInvoiceId),
      name |-> Str(<<"Standard Invoice Validation">>),
      description |-> Str(<<"Basic validation for standard Philippine invoices">>),
      poType |-> Undef,
      isActive |-> Bool(TRUE),
      createdAt |-> Today, updatedAt |-> Today,
      rules |-> Arr(<<ValidationRule(<<"bir_atp">>, <<"BIR Authority to Print (ATP) is required">>),
                      ValidationRule(<<"signature_present">>, <<"Authorized signature is required">>),
                      ValidationRule(<<"invoice_number">>, <<"Invoice number is required">>),
                      ValidationRule(<<"vendor_tin">>, <<"Valid vendor TIN is required">>),
                      ValidationRule(<<"total_amount">>, <<"Total amount must be greater than zero">>)>>)],
     [id |-> Str(GovernmentInvoiceId),
      name |-> Str(<<"Government Invoice Validation">>),
      description |-> Str(<<"Enhanced validation for government-related invoices">>),
      poType |-> Undef,
      isActive |-> Bool(TRUE),
      createdAt |-> Today, updatedAt |-> Today,
      rules |-> Arr(<<ValidationRule(<<"bir_atp">>, <<"BIR Authority to Print (ATP) is mandatory">>),
                      ValidationRule(<<"signature_present">>, <<"Authorized signature is mandatory">>),
                      ValidationRule(<<"invoice_number">>, <<"Invoice number is required">>),
                      ValidationRule(<<"vendor_tin">>, <<"Valid vendor TIN is required">>),
                      ValidationRule(<<"customer_tin">>, <<"Customer TIN is required">>),
                      ValidationRule(<<"vat_status">>, <<"Valid VAT status is required">>)>>)] >>

\* !s || s.trim().length === 0
Blank(v) == Falsy(v) \/ (v.t = "str" /\ TrimLen(v.s) = 0)

validateValidationRule(rule) ==
  SeqOf(Blank(rule.field), "Field name is required")
  \o SeqOf(Blank(rule.errorMessage), "Error message is required")

\* the itemized errors; the configuration is valid when there are none
validateValidationConfig(config) ==
  SeqOf(Blank(config.name), "Configuration name is required")
  \o SeqOf(Blank(config.description), "Configuration description is required")
  \o (IF Falsy(config.rules) \/ Len(config.rules.a) = 0
      THEN <<"At least one validation rule is required">>
      ELSE SeqOf(\E k \in 1..Len(config.rules.a) :
                    validateValidationRule(config.rules.a[k]) # <<>>, "Rule"))

getValidationConfigs(cfgs) == SelectSeq(cfgs, LAMBDA c : ~Falsy(c.isActive))

\* findIndex: the first of the positions that satisfy the test, NoIndex if none
FirstIndex(matches) ==
  IF matches = {} THEN NoIndex
  ELSE CHOOSE i \in matches : \A j \in matches : i <= j

\* the positions of the records stored under this id
WithId(cfgs, id) == {i \in 1..Len(cfgs) : cfgs[i].id = id}

getValidationConfig(cfgs, id) ==
  LET i == FirstIndex({k \in WithId(cfgs, id) : ~Falsy(cfgs[k].isActive)})
  IN  IF i = NoIndex THEN Null ELSE cfgs[i]

\* { ...config, id, createdAt, updatedAt } pushed at the end
createValidationConfig(cfgs, config, t) ==
  Append(cfgs, [id |-> Str(generateConfigId(config.name.s)),
                name |-> config.name,
                description |-> config.description,
                poType |-> config.poType,
                isActive |-> config.isActive,
                rules |-> config.rules,
                createdAt |-> t, updatedAt |-> t])

\* the keys an update object can carry
UpdateKeys == {"name", "description", "poType", "rules", "isActive"}

\* { ...stored, ...updates, updatedAt }: every own key of updates is copied,
\* a key whose value is undefined included
updateValidationConfig(cfgs, id, updates, t) ==
  LET i == FirstIndex(WithId(cfgs, id))
  IN  IF i = NoIndex THEN cfgs
      ELSE [cfgs EXCEPT ![i] =
              [k \in DOMAIN cfgs[i] |->
                 IF k = "updatedAt" THEN t
                 ELSE IF k \in DOMAIN updates THEN updates[k]
                 ELSE cfgs[i][k]]]

\* what updateValidationConfig returns
updateReturns(cfgs, id, updates, t) ==
  LET i == FirstIndex(WithId(cfgs, id))
  IN  IF i = NoIndex THEN Null ELSE updateValidationConfig(cfgs, id, updates, t)[i]

deleteValidationConfig(cfgs, id, t) ==
  LET i == FirstIndex(WithId(cfgs, id))
  IN  IF i = NoIndex THEN cfgs
      ELSE [cfgs EXCEPT ![i].isActive = Bool(FALSE), ![i].updatedAt = t]

\* what deleteValidationConfig returns
deleteReturns(cfgs, id) == FirstIndex(WithId(cfgs, id)) # NoIndex

(***************************************************************************)
(* Requests to /api/validation/configs                                     *)
(***************************************************************************)
MaxConfigs == 3    \* stored configurations, the two built-in ones included
MaxTicks == 1      \* how far the clock moves

NamePO == Str(<<"P", "O">>)
NamePoBang == Str(<<"p", "o", "!">>)
NameStandard == Str(<<"S", "t", "a", "n", "d", "a", "r", "d", " ", "I", "n", "v", "o", "i", "c", "e">>)
DescOk == Str(<<"d">>)
GoodRules == Arr(<<ValidationRule(<<"po_number">>, <<"PO number is required">>)>>)
BadRules == Arr(<<ValidationRule(<<" ">>, <<"PO number is required">>)>>)
NoRules == Arr(<<>>)
PoId == Str(<<"p", "o">>)
UnknownId == Str(<<"n", "o">>)

Body(id, name, description, poType, rules, isActive) ==
  [id |-> id, name |-> name, description |-> description, poType |-> poType,
   rules |-> rules, isActive |-> isActive]

PostBodies ==
  { Body(Undef, NamePO, DescOk, Undef, GoodRules, Undef),
    Body(Undef, NamePoBang, DescOk, Str(<<"x">>), GoodRules, Undef),
    Body(Undef, NameStandard, DescOk, Undef, GoodRules, Undef),
    Body(Undef, Str(<<>>), DescOk, Undef, GoodRules, Undef),
    Body(Undef, NamePO, Undef, Undef, GoodRules, Undef),
    Body(Undef, NamePO, DescOk, Undef, NoRules, Undef),
    Body(Undef, NamePO, DescOk, Undef, BadRules, Undef) }

TargetIds == {PoId, Str(StandardInvoiceId), UnknownId, Undef}

PutBodies ==
  { Body(id, f[1], f[2], f[3], f[4], f[5]) :
      id \in TargetIds,
      f \in { <<Undef, Undef, Undef, Undef, Bool(TRUE)>>,
              <<Undef, Undef, Undef, Undef, Bool(FALSE)>>,
              <<NamePoBang, Undef, Undef, Undef, Undef>>,
              <<Str(<<>>), DescOk, Undef, GoodRules, Bool(TRUE)>>,
              <<NamePO, DescOk, Str(<<"x">>), GoodRules, Bool(TRUE)>>,
              <<NamePO, DescOk, Undef, NoRules, Bool(TRUE)>>,
              <<NamePO, DescOk, Undef, BadRules, Bool(TRUE)>> } }

InitConfig ==
  /\ record = Absent
  /\ now = Today
  /\ call = NoCall
  /\ result = NoResult
  /\ previous = NoResult
  /\ ruleSets = BuiltInRuleSets
  /\ invoices = IdleInvoices
  /\ reqs = IdleReqs
  /\ deployed = IdleDeployed
  /\ batch = IdleBatch
  /\ validationConfigs = InitialValidationConfigs
  /\ http = IdleHttp
  /\ upload = IdleUpload

Response(method, body, status, details) ==
  [method |-> method, body |-> body, status |-> status, details |-> details]

\* POST /api/validation/configs
PostConfig ==
  \E body \in PostBodies :
    LET config == [name |-> body.name, description |-> body.description,
                   poType |-> body.poType, isActive |-> Bool(TRUE),
                   rules |-> body.rules]
        errs == validateValidationConfig(config)
    IN  /\ Len(validationConfigs) < MaxConfigs
        /\ IF errs # <<>>
           THEN /\ http' = Response("POST", body, 400, errs)
                /\ UNCHANGED validationConfigs
           ELSE /\ validationConfigs' = createValidationConfig(validationConfigs, config, now)
                /\ http' = Response("POST", body, 200, <<>>)
        /\ UNCHANGED <<valVars, invVars, deployed, upload, batch>>

\* PUT /api/validation/configs
PutConfig ==
  \E body \in PutBodies :
    LET errs == IF Falsy(body.rules) THEN <<>>
                ELSE validateValidationConfig(
                       [name |-> IF Falsy(body.name) THEN Str(<<"temp">>) ELSE body.name,
                        description |-> IF Falsy(body.description) THEN Str(<<"temp">>)
                                        ELSE body.description,
                        poType |-> body.poType,
                        isActive |-> IF body.isActive # Undef THEN body.isActive ELSE Bool(TRUE),
                        rules |-> body.rules])
        updates == [k \in UpdateKeys |-> body[k]]
    IN  /\ IF Falsy(body.id)
           THEN /\ http' = Response("PUT", body, 400, <<"Configuration ID is required for updates">>)
                /\ UNCHANGED validationConfigs
           ELSE IF errs # <<>>
           THEN /\ http' = Response("PUT", body, 400, errs)
                /\ UNCHANGED validationConfigs
           ELSE IF updateReturns(validationConfigs, body.id, updates, now) = Null
           THEN /\ http' = Response("PUT", body, 404, <<>>)
                /\ UNCHANGED validationConfigs
           ELSE /\ validationConfigs' = updateValidationConfig(validationConfigs, body.id, updates, now)
                /\ http' = Response("PUT", body, 200, <<>>)
        /\ UNCHANGED <<valVars, invVars, deployed, upload, batch>>

\* DELETE /api/validation/configs?id=...
DeleteConfig ==
  \E id \in TargetIds :
    LET body == Body(id, Undef, Undef, Undef, Undef, Undef)
    IN  /\ IF Falsy(id)
           THEN /\ http' = Response("DELETE", body, 400, <<"Configuration ID is required">>)
                /\ UNCHANGED validationConfigs
           ELSE IF ~deleteReturns(validationConfigs, id)
           THEN /\ http' = Response("DELETE", body, 404, <<>>)
                /\ UNCHANGED validationConfigs
           ELSE /\ validationConfigs' = deleteValidationConfig(validationConfigs, id, now)
                /\ http' = Response("DELETE", body, 200, <<>>)
        /\ UNCHANGED <<valVars, invVars, deployed, upload, batch>>

\* time passes between two requests
Tick ==
  /\ now < Today + MaxTicks
  /\ now' = now + 1
  /\ UNCHANGED <<record, call, result, previous, ruleSets, invVars, deployed, upload, batch, cfgVars>>

NextConfig == PostConfig \/ PutConfig \/ DeleteConfig \/ Tick

SpecConfig == InitConfig /\ [][NextConfig]_vars

(***************************************************************************)
(* Claims about the validation configuration registry                      *)
(***************************************************************************)
Stored(cfgs, id) == \E i \in 1..Len(cfgs) : cfgs[i].id = id
Listed(cfgs, id) ==
  \E i \in 1..Len(getValidationConfigs(cfgs)) : getValidationConfigs(cfgs)[i].id = id
Answered(h, method, status) == h.method = method /\ h.status = status

\* C14: once deleteValidationConfig(id) has returned true, getValidationConfig(id)
\* is null and getValidationConfigs() lists no configuration with that id, while
\* a record with that id is still stored with isActive = false; a delete of an
\* id that is not stored returns false (404) and changes nothing.
C14_SoftDelete ==
  [][ /\ Answered(http', "DELETE", 200) =>
           /\ getValidationConfig(validationConfigs', http'.body.id) = Null
           /\ ~Listed(validationConfigs', http'.body.id)
           /\ \E i \in 1..Len(validationConfigs') :
                /\ validationConfigs'[i].id = http'.body.id
                /\ validationConfigs'[i].isActive = Bool(FALSE)
      /\ (http'.method = "DELETE" /\ ~Falsy(http'.body.id)
            /\ ~Stored(validationConfigs, http'.body.id)) =>
           /\ http'.status = 404
           /\ validationConfigs' = validationConfigs ]_vars

\* a stored configuration with a name, a description and at least one rule,
\* each rule with a field and an error message
WellFormed(c) ==
  /\ c.name.t = "str" /\ TrimLen(c.name.s) > 0
  /\ c.description.t = "str" /\ TrimLen(c.description.s) > 0
  /\ c.rules.t = "arr" /\ Len(c.rules.a) > 0
  /\ \A k \in 1..Len(c.rules.a) :
       /\ c.rules.a[k].field.t = "str" /\ TrimLen(c.rules.a[k].field.s) > 0
       /\ c.rules.a[k].errorMessage.t = "str" /\ TrimLen(c.rules.a[k].errorMessage.s) > 0

\* C15: after any sequence of POST / PUT / DELETE requests every stored
\* configuration has a non-empty name, a non-empty description and at least one
\* rule with a non-empty field and errorMessage; a request with a configuration
\* that lacks one of these is answered 400 with itemized errors and leaves the
\* registry unchanged.
C15_StoredConfigsWellFormed ==
  [][ /\ \A i \in 1..Len(validationConfigs') : WellFormed(validationConfigs'[i])
      /\ (http'.method = "POST" /\ ~WellFormed(http'.body)) =>
           /\ http'.status = 400 /\ http'.details # <<>>
           /\ validationConfigs' = validationConfigs ]_vars

\* the position updateValidationConfig writes for this id
Target(cfgs, id) == FirstIndex(WithId(cfgs, id))

\* C16: a PUT that updates a configuration changes only the fields the request
\* supplies, plus updatedAt: omitted fields keep their value, id and createdAt
\* never change, every other configuration is unchanged; for an id that is not
\* stored the answer is 404 and the registry is unchanged.
C16_UpdateFrame ==
  [][ /\ Answered(http', "PUT", 200) =>
           LET i == Target(validationConfigs, http'.body.id)
           IN  /\ i # NoIndex
               /\ Len(validationConfigs') = Len(validationConfigs)
               /\ \A j \in 1..Len(validationConfigs) :
                    j # i => validationConfigs'[j] = validationConfigs[j]
               /\ validationConfigs'[i].id = validationConfigs[i].id
               /\ validationConfigs'[i].createdAt = validationConfigs[i].createdAt
               /\ \A k \in UpdateKeys :
                    http'.body[k] = Undef =>
                      validationConfigs'[i][k] = validationConfigs[i][k]
      /\ (http'.method = "PUT" /\ ~Falsy(http'.body.id)
            /\ ~Stored(validationConfigs, http'.body.id)) =>
           /\ http'.status \in {400, 404}
           /\ validationConfigs' = validationConfigs ]_vars

(***************************************************************************)
(* SpecRepeat: a validator is called twice on the same record              *)
(***************************************************************************)
STomorrow == <<"2","0","2","5","-","0","6","-","1","6">>

\* a template with one key changed
EditedOnce(tpl, samples) ==
  UNION {{[g \in AllFields |-> IF g = f THEN v ELSE tpl[g]] : v \in samples[f]} :
           f \in DOMAIN samples}

RepeatRecords ==
  EditedOnce(TplVat, BIRSamples) \cup EditedOnce(TplStd, StdSamples)
  \cup {With(TplVat, [transaction_date |-> Str(STomorrow)]),
        With(TplStd, [invoice_date |-> Str(STomorrow)])}

InitRepeat ==
  /\ record \in RepeatRecords
  /\ now = Today
  /\ call = NoCall
  /\ result = NoResult
  /\ previous = NoResult
  /\ ruleSets = BuiltInRuleSets
  /\ invoices = IdleInvoices
  /\ reqs = IdleReqs
  /\ deployed = IdleDeployed
  /\ batch = IdleBatch
  /\ validationConfigs = IdleConfigs
  /\ http = IdleHttp
  /\ upload = IdleUpload

\* the same validator is called again, on the same record, with the same rule set
CallAgain ==
  /\ call # NoCall
  /\ previous = NoResult
  /\ previous' = result
  /\ result' = IF call.fn = "validateBIRCompliance"
               THEN validateBIRCompliance(record, call.ruleSetName, now)
               ELSE validateInvoiceData(record, call.ruleSetName, now)
  /\ UNCHANGED <<record, now, call, ruleSets, invVars, deployed, upload, batch, cfgVars>>

NextRepeat == CallValidateInvoiceData \/ CallValidateBIRCompliance \/ Tick \/ CallAgain

SpecRepeat == InitRepeat /\ [][NextRepeat]_vars

\* score, errors and isValid / isCompliant of a result
Verdict(r) ==
  IF r.kind # "result" THEN <<r.kind>>
  ELSE <<r.score, r.errors, IF "isValid" \in DOMAIN r THEN r.isValid ELSE r.isCompliant>>

\* C17: a validator called twice on the same unmodified record with the same
\* rule set gives the same score, errors and isValid / isCompliant, whenever
\* the two calls are made.
C17_RepeatableVerdict == previous # NoResult => Verdict(previous) = Verdict(result)

(***************************************************************************)
(* Claims about the amounts (checked under SpecValidate)                   *)
(***************************************************************************)
HasWarning(warnings, f) == \E k \in 1..Len(warnings) : warnings[k].field = f
StdChecked ==
  CalledStd /\ Returned /\ StdRegistered /\ SchemaAccepts(InvoiceDataSchema, record)
LineTotal(data) ==
  SumSeq([i \in 1..Len(data.line_items.a) |-> data.line_items.a[i].line_total.n])

\* C18: in standard validation, a record with at least one line item and a
\* stated subtotal that is not null gets the 'subtotal' warning iff the sum of
\* its line totals differs from the subtotal by more than 1.00 (100 centavos).
C18_SubtotalTolerance ==
  (StdChecked /\ Len(record.line_items.a) > 0 /\ record.subtotal.t = "num") =>
    (HasWarning(result.warnings, "subtotal")
       <=> Abs(LineTotal(record) - record.subtotal.n) > 100)

(***************************************************************************)
(* Claims about concurrent validate requests (checked under SpecInvoice)   *)
(***************************************************************************)
InProgress(r) == reqs[r].pc # "idle"

\* C19: when two validate requests for the same invoice are in progress at the
\* same time, no status field of that invoice has been written by both.
C19_OneWriterPerField ==
  \A r1, r2 \in Requests :
    (r1 # r2 /\ InProgress(r1) /\ InProgress(r2) /\ reqs[r1].id = reqs[r2].id) =>
      reqs[r1].wrote \cap reqs[r2].wrote = {}

(***************************************************************************)
(* SpecRegister: rule sets are registered at run time, then a validator is *)
(* called                                                                  *)
(***************************************************************************)
\* VALIDATION_RULE_SETS[name] = ruleSet / BIR_COMPLIANCE_RULE_SETS[name] = ruleSet
Put(sets, name, ruleSet) ==
  [n \in DOMAIN sets \cup {name} |-> IF n = name THEN ruleSet ELSE sets[n]]

CustomName == "custom"

CustomStdRuleSets ==
  { [rules |-> <<>>],
    [rules |-> << Rule("invoice_number", TRUE, "nonEmpty", 0) >>],
    [rules |-> << Rule("invoice_number", TRUE, "nonEmpty", 0),
                  Rule("bir_atp", FALSE, "isTrue", 0) >>] }

CustomBIRRuleSets ==
  { [minimumScore |-> 80, rules |-> <<>>],
    [minimumScore |-> 80, rules |-> << Rule("seller_tin", TRUE, "tinLabelled", 10) >>],
    [minimumScore |-> 80, rules |-> << Rule("seller_tin", TRUE, "tinLabelled", 10),
                                       Rule("serial_number", FALSE, "nonEmpty", 5) >>] }

InitRegister ==
  /\ record \in EditedOnce(TplVat, BIRSamples) \cup EditedOnce(TplStd, StdSamples)
  /\ now = Today
  /\ call = NoCall
  /\ result = NoResult
  /\ previous = NoResult
  /\ ruleSets = BuiltInRuleSets
  /\ invoices = IdleInvoices
  /\ reqs = IdleReqs
  /\ deployed = IdleDeployed
  /\ batch = IdleBatch
  /\ validationConfigs = IdleConfigs
  /\ http = IdleHttp
  /\ upload = IdleUpload

addValidationRuleSet ==
  /\ call = NoCall
  /\ \E ruleSet \in CustomStdRuleSets :
       ruleSets' = [ruleSets EXCEPT !.std = Put(@, CustomName, ruleSet)]
  /\ UNCHANGED <<record, now, call, result, previous, invVars, deployed, upload, batch, cfgVars>>

addBIRComplianceRuleSet ==
  /\ call = NoCall
  /\ \E ruleSet \in CustomBIRRuleSets :
       ruleSets' = [ruleSets EXCEPT !.bir = Put(@, CustomName, ruleSet)]
  /\ UNCHANGED <<record, now, call, result, previous, invVars, deployed, upload, batch, cfgVars>>

NextRegister ==
  \/ addValidationRuleSet
  \/ addBIRComplianceRuleSet
  \/ CallValidateInvoiceData
  \/ CallValidateBIRCompliance

SpecRegister == InitRegister /\ [][NextRegister]_vars

\* C20: every result a validator returns has an integer score from 0 to 100,
\* whatever the record and whatever rule set of the registry is used, rule
\* sets registered at run time and a rule set without rules included.
C20_ScoreInRange == Returned => result.score \in 0..100

(***************************************************************************)
(* Claims about the records of the BIR test route and the score            *)
(* (checked under SpecValidate)                                            *)
(***************************************************************************)
DefaultBIRRuleSet == "standard_bir_compliance"

\* C21: the record with only the legacy field names, all valid and every line
\* item complete, validated with the default rule-set name
\* 'standard_bir_compliance', is returned compliant: no throw, no schema failure.
C21_LegacyRecordCompliant ==
  (CalledBIR /\ call.ruleSetName = DefaultBIRRuleSet
     /\ record = SAMPLE_BIR_COMPLIANT_INVOICE) =>
    (Returned /\ result.isCompliant)

\* the positions of the line items that carry no unit_cost
NoUnitCost(items) == {i \in 1..Len(items) : items[i].unit_cost = Undef}

\* a record valid in every field, one of its line items without a unit price
\* and another one complete
OneItemWithoutUnitPrice ==
  /\ record.line_items.t = "arr"
  /\ record \in {With(TplVat, [line_items |-> record.line_items]),
                 With(TplNonVat, [line_items |-> record.line_items])}
  /\ NoUnitCost(record.line_items.a) # {}
  /\ \E i \in 1..Len(record.line_items.a) : MissingFields(record.line_items.a[i]) = <<>>

\* C22: for a record with one line item that omits its unit price, another
\* item complete and every other field valid, the rules are evaluated: the
\* score is strictly between 0 and 100, the deficient item is listed in
\* lineItemsCompleteness.incompleteItems, and the result is not the score-0
\* schema failure.
C22_PartialLineItemCredit ==
  (CalledBIR /\ BIRRegistered /\ OneItemWithoutUnitPrice) =>
    /\ Returned
    /\ result # BIRSchemaError
    /\ result.score > 0 /\ result.score < 100
    /\ \A i \in NoUnitCost(record.line_items.a) :
         \E k \in 1..Len(result.fieldCompleteness.lineItemsCompleteness.incompleteItems) :
           result.fieldCompleteness.lineItemsCompleteness.incompleteItems[k].index = i - 1

\* the rules of the rule set of the call whose validator passes on the record
PassingRules ==
  LET rules == BIR_COMPLIANCE_RULE_SETS[call.ruleSetName].rules
  IN  {i \in 1..Len(rules) :
         ApplyValidator(rules[i].validator, ParsedRecord[rules[i].field]) = "pass"}

\* round(100 * achieved / total) with achieved = the weights of the passing
\* rules + 15 * completeItems / totalItems and total = all weights + 15
WeightedScore ==
  LET rules == BIR_COMPLIANCE_RULE_SETS[call.ruleSetName].rules
      li    == validateLineItemsCompleteness(
                 IF ParsedRecord.line_items.t = "arr" THEN ParsedRecord.line_items.a ELSE <<>>)
      total == SumSeq([i \in 1..Len(rules) |-> rules[i].weight]) + 15
      won   == SumSeq([i \in 1..Len(rules) |-> IF i \in PassingRules THEN rules[i].weight ELSE 0])
  IN  IF li.totalItems = 0 THEN RoundPct(won, total)
      ELSE RoundPct(won * li.totalItems + 15 * li.completeItems, total * li.totalItems)

\* C23: the score is round(100 * achieved / total), total being the sum of the
\* weights of all rules plus 15 and achieved the sum of the weights of the
\* rules whose validator passes plus 15 * completeItems / totalItems (0 without
\* line items, which also gives a critical 'line_items' error).
C23_WeightedScore ==
  BIRChecked =>
    /\ result.score = WeightedScore
    /\ (ParsedRecord.line_items.t # "arr" \/ Len(ParsedRecord.line_items.a) = 0)
         => HasError(result.errors, "line_items")

\* the conditions of a complete line item, by the name missingFields gives them
ViolatedConditions(item) ==
  (IF item.quantity.t = "num" /\ item.quantity.n > 0 THEN {} ELSE {"quantity"})
  \cup (IF item.unit_cost.t = "num" /\ item.unit_cost.n > 0 THEN {} ELSE {"unit_cost"})
  \cup (IF item.line_total.t = "num" /\ item.line_total.n > 0 THEN {} ELSE {"line_total"})
  \cup (IF item.description.t = "str" /\ TrimLen(item.description.s) > 0 THEN {}
        ELSE {"description"})
  \cup (IF /\ item.quantity.t = "num" /\ item.unit_cost.t = "num" /\ item.line_total.t = "num"
           /\ Abs(item.line_total.n - item.quantity.n * item.unit_cost.n) > 1
        THEN {"accurate_calculation"} ELSE {})

SeqToSet(q) == {q[k] : k \in 1..Len(q)}

\* C24: a line item counts as complete iff quantity, unit_cost and line_total
\* are present and > 0, the description is not blank and line_total is within
\* 0.01 of quantity * unit_cost; every violated condition of an incomplete item
\* is a named entry of missingFields under the item's index, each index appears
\* at most once, and completeItems + #incompleteItems = totalItems = #line items.
C24_LineItemCompleteness ==
  (BIRChecked /\ ParsedRecord.line_items.t = "arr") =>
    LET items == ParsedRecord.line_items.a
        li    == result.fieldCompleteness.lineItemsCompleteness
        inc   == li.incompleteItems
    IN  /\ li.totalItems = Len(items)
        /\ li.completeItems + Len(inc) = li.totalItems
        /\ li.completeItems = Cardinality({i \in 1..Len(items) : ViolatedConditions(items[i]) = {}})
        /\ \A k, m \in 1..Len(inc) : inc[k].index = inc[m].index => k = m
        /\ \A i \in 1..Len(items) :
             ViolatedConditions(items[i]) # {} =>
               \E k \in 1..Len(inc) :
                 /\ inc[k].index = i - 1
                 /\ ViolatedConditions(items[i]) \subseteq SeqToSet(inc[k].missingFields)

\* the line items whose three amounts are > 0 and whose line_total is not
\* within 0.01 of quantity * unit_cost
Unreconciled(items) ==
  {i \in 1..Len(items) :
     /\ items[i].quantity.n > 0 /\ items[i].unit_cost.n > 0 /\ items[i].line_total.n > 0
     /\ Abs(items[i].line_total.n - items[i].quantity.n * items[i].unit_cost.n) > 1}

\* the record with the line_total of item i set to quantity * unit_cost
Reconciled(data, i) ==
  LET item == data.line_items.a[i]
  IN  With(data, [line_items |->
        Arr([data.line_items.a EXCEPT ![i].line_total = Num(item.quantity.n * item.unit_cost.n)])])

\* C25: a reconciliation miss of a line item is advisory: compared with the
\* same record in which that line_total reconciles, the result has the same
\* errors and the same isCompliant, and only more warnings.
C25_ReconciliationIsAdvisory ==
  (BIRChecked /\ record.line_items.t = "arr") =>
    \A i \in Unreconciled(record.line_items.a) :
      LET base == validateBIRCompliance(Reconciled(record, i), call.ruleSetName, now)
      IN  /\ result.errors = base.errors
          /\ result.isCompliant = base.isCompliant
          /\ Len(result.warnings) > Len(base.warnings)

(***************************************************************************)
(* Claims about the VAT arithmetic check (checked under SpecValidate)      *)
(***************************************************************************)
ExpectedVat(data) == (12 * data.vatable_sales.n + 50) \div 100
VatStated ==
  /\ StdChecked
  /\ IsStr(record.vat_status, <<"vatable">>)
  /\ record.vatable_sales.t = "num"
  /\ record.vat_amount.t = "num"
VatAgrees(data) == [data EXCEPT !.vat_amount = Num(ExpectedVat(data))]

\* C26: in standard validation of a record with vat_status 'vatable' whose
\* vatable_sales and vat_amount are both numbers (0 included), the 'vat_amount'
\* warning is present iff the stated VAT differs from 12% of the vatable sales,
\* rounded to centavos, by more than 1.00; and a positive stated VAT gets the
\* same errors, score and isValid as the record stating the expected VAT.
C26_VatTolerance ==
  VatStated =>
    /\ HasWarning(result.warnings, "vat_amount")
         <=> Abs(ExpectedVat(record) - record.vat_amount.n) > OnePeso
    /\ (record.vat_amount.n > 0 /\ ExpectedVat(record) > 0) =>
         LET agreed == validateInvoiceData(VatAgrees(record), call.ruleSetName, now)
         IN  /\ result.errors = agreed.errors
             /\ result.score = agreed.score
             /\ result.isValid = agreed.isValid

(***************************************************************************)
(* Claims about the batch summary (checked under SpecBatch)                *)
(***************************************************************************)
BatchErrors == FlatSeq([i \in 1..Len(batch.results) |-> batch.results[i].errors])
Occurrences(field, index) ==
  Cardinality({e \in 1..Len(BatchErrors) :
                 BatchErrors[e].field = field /\ BatchErrors[e].index = index})
Listed5(issues, field, index) ==
  \E k \in 1..Len(issues) : issues[k].field = field /\ issues[k].index = index

\* C27: in every batch response with a summary the outcome counts add up to
\* the number of submitted documents (BIR: compliant + non-compliant + error;
\* general: successful + failed + processing errors); commonComplianceIssues
\* has at most 5 entries, in non-increasing order of occurrences, each count is
\* the number of errors with that field name over all documents, and no field
\* left out has more errors than a listed one.
C27_SummaryPartition ==
  (Responded /\ batch.status = 200) =>
    LET s == batch.summary
    IN  /\ s.totalDocuments = Submitted
        /\ IF batch.route = "bir"
           THEN LET issues == s.commonComplianceIssues
                IN  /\ s.compliantDocuments + s.nonCompliantDocuments + s.errorDocuments
                         = s.totalDocuments
                    /\ Len(issues) <= 5
                    /\ \A k \in 1..Len(issues) :
                         /\ issues[k].occurrences = Occurrences(issues[k].field, issues[k].index)
                         /\ issues[k].occurrences > 0
                         /\ k > 1 => issues[k - 1].occurrences >= issues[k].occurrences
                         /\ \A j \in 1..Len(issues) :
                              (issues[j].field = issues[k].field
                                 /\ issues[j].index = issues[k].index) => j = k
                    /\ \A e \in 1..Len(BatchErrors) :
                         ~Listed5(issues, BatchErrors[e].field, BatchErrors[e].index) =>
                           /\ Len(issues) = 5
                           /\ \A k \in 1..Len(issues) :
                                issues[k].occurrences
                                  >= Occurrences(BatchErrors[e].field, BatchErrors[e].index)
           ELSE s.successfulValidations + s.failedValidations + s.processingErrors
                  = s.totalDocuments

\* a BIR batch answered with compliant and non-compliant documents whose
\* errors name more than five fields, some of them more often than others
C27_Witness ==
  /\ Responded /\ batch.status = 200 /\ batch.route = "bir"
  /\ batch.summary.compliantDocuments > 0
  /\ batch.summary.nonCompliantDocuments > 0
  /\ Len(batch.summary.commonComplianceIssues) = 5
  /\ \E e \in 1..Len(BatchErrors) :
       ~Listed5(batch.summary.commonComplianceIssues,
                BatchErrors[e].field, BatchErrors[e].index)
  /\ batch.summary.commonComplianceIssues[1].occurrences
       > batch.summary.commonComplianceIssues[5].occurrences

(***************************************************************************)
(* Claims about configuration ids (checked under SpecConfig)               *)
(***************************************************************************)
Created == validationConfigs[Len(validationConfigs)]

\* C28: after any sequence of requests no two stored configurations have the
\* same id, and once a POST has created a configuration, a lookup by the id it
\* was given returns that configuration as long as it is active.
C28_UniqueIds ==
  /\ \A i, j \in 1..Len(validationConfigs) :
       validationConfigs[i].id = validationConfigs[j].id => i = j
  /\ (Answered(http, "POST", 200) /\ IsTrue(Created.isActive)) =>
       getValidationConfig(validationConfigs, Created.id) = Created

(***************************************************************************)
(* Claims about failed validate requests (checked under SpecInvoice)       *)
(***************************************************************************)
EndedInError(r) == reqs[r].resp \in {400, 500}

\* C29: a validate request that has ended in an error (status 400 or 500) has
\* written no status field of the stored invoice.
C29_ErrorWritesNothing ==
  \A r \in Requests : EndedInError(r) => reqs[r].wrote = {}

(***************************************************************************)
(* Upload pipeline: POST /api/document-upload/invoice and the polling loop *)
(* pollUntilCondition.  A step is what runs between two awaits.            *)
(***************************************************************************)
defaultMaxAttempts == 20
routeMaxAttempts == 50
MaxTasks == 2

TaskStatuses == {"PENDING", "STARTED", "SUCCESS", "FAILURE"}

\* response.data of GET /api/tasks/?task_id=...: the tasks, by status
TaskLists == UNION {[1..n -> TaskStatuses] : n \in 0..MaxTasks}

\* what a getUploadTask call yields
NoFetch == [kind |-> "none", tasks |-> <<>>]
FetchRejected == [kind |-> "rejected", tasks |-> <<>>]
FetchOutcomes == {FetchRejected} \cup {[kind |-> "tasks", tasks |-> t] : t \in TaskLists}

\* data.find(item => !['PENDING', 'STARTED'].includes(item.status))
HasFinal(data) == \E k \in 1..Len(data) : data[k] \notin {"PENDING", "STARTED"}

UploadRequests ==
  [pc : {"received"}, caller : {"route"}, file : BOOLEAN, maxAttempts : {routeMaxAttempts},
   attempt : {0}, fetches : {0}, failedFetch : {FALSE}, last : {NoFetch}, poll : {"none"},
   data : {<<>>}, status : {0}, created : {0}]
  \cup
  [pc : {"loop"}, caller : {"direct"}, file : {TRUE},
   maxAttempts : {0, 1, 3, defaultMaxAttempts},
   attempt : {0}, fetches : {0}, failedFetch : {FALSE}, last : {NoFetch}, poll : {"running"},
   data : {<<>>}, status : {0}, created : {0}]

InitUpload ==
  /\ record = Absent
  /\ now = Today
  /\ call = NoCall
  /\ result = NoResult
  /\ previous = NoResult
  /\ ruleSets = BuiltInRuleSets
  /\ invoices = [i \in InvoiceIds |-> NoRow]
  /\ reqs = IdleReqs
  /\ deployed = IdleDeployed
  /\ batch = IdleBatch
  /\ validationConfigs = IdleConfigs
  /\ http = IdleHttp
  /\ upload \in UploadRequests

\* return json(..., {status}) / return new Response(..., {status})
UploadResponds(u, code) == [u EXCEPT !.pc = "responded", !.status = code]

\* a throw inside the handler's try: the catch answers 500; a direct caller
\* of pollUntilCondition sees the rejection
UploadThrows(u) ==
  IF u.caller = "route" THEN UploadResponds(u, 500) ELSE [u EXCEPT !.pc = "done"]

\* formData, the file test, arrayBuffer, then writeFile is awaited
ReceiveUpload ==
  /\ upload.pc = "received"
  /\ upload' = IF ~upload.file THEN UploadResponds(upload, 400)
               ELSE [upload EXCEPT !.pc = "writeFile"]
  /\ UNCHANGED <<valVars, invVars, deployed, batch, cfgVars>>

WriteFileSettles ==
  /\ upload.pc = "writeFile"
  /\ upload' = [upload EXCEPT !.pc = "postDocument"]
  /\ UNCHANGED <<valVars, invVars, deployed, batch, cfgVars>>

\* postDocument resolves; pollUntilCondition({uploadId, maxAttempts: 50}) starts
PostDocumentSettles ==
  /\ upload.pc = "postDocument"
  /\ upload' = [upload EXCEPT !.pc = "loop", !.poll = "running"]
  /\ UNCHANGED <<valVars, invVars, deployed, batch, cfgVars>>

\* mutant: while (attempt <= maxAttempts)
LoopContinuesInclusive(attempt, maxAttempts) == attempt <= maxAttempts

\* while (attempt < maxAttempts)
LoopContinues(attempt, maxAttempts) == attempt < maxAttempts

\* the loop test; attempt++ and the call of getUploadTask, or the throw of
\* 'Polling failed after ... attempts.'
LoopTest ==
  /\ upload.pc = "loop"
  /\ upload' = IF LoopContinues(upload.attempt, upload.maxAttempts)
               THEN [upload EXCEPT !.pc = "fetch", !.attempt = @ + 1, !.fetches = @ + 1]
               ELSE UploadThrows([upload EXCEPT !.poll = "threw"])
  /\ UNCHANGED <<valVars, invVars, deployed, batch, cfgVars>>

\* pollUntilCondition returned data; the route throws on a failed first task,
\* else awaits getDocument(uploadInfo[0].related_document)
PollReturned(u, data) ==
  LET v == [u EXCEPT !.poll = "returned", !.data = data]
  IN  IF u.caller = "direct" THEN [v EXCEPT !.pc = "done"]
      ELSE IF data[1] = "FAILURE" THEN UploadThrows(v)
      ELSE [v EXCEPT !.pc = "getDocument"]

\* getUploadTask settles: return data, or sleep intervalMs (also in the catch)
FetchSettles ==
  /\ upload.pc = "fetch"
  /\ \E out \in FetchOutcomes :
       LET u == [upload EXCEPT !.last = out,
                               !.failedFetch = @ \/ out.kind = "rejected"]
       IN  upload' = IF out.kind = "tasks" /\ HasFinal(out.tasks)
                     THEN PollReturned(u, out.tasks)
                     ELSE [u EXCEPT !.pc = "sleep"]
  /\ UNCHANGED <<valVars, invVars, deployed, batch, cfgVars>>

\* the setTimeout of intervalMs fires
SleepEnds ==
  /\ upload.pc = "sleep"
  /\ upload' = [upload EXCEPT !.pc = "loop"]
  /\ UNCHANGED <<valVars, invVars, deployed, batch, cfgVars>>

UploadGetDocument ==
  /\ upload.pc = "getDocument"
  /\ upload' = [upload EXCEPT !.pc = "chatResponse"]
  /\ UNCHANGED <<valVars, invVars, deployed, batch, cfgVars>>

\* chatResponse resolves; formatTextToJson yields null for text that is not
\* JSON, and aiOutput.invoice_type then throws a TypeError
ChatResponseSettles ==
  /\ upload.pc = "chatResponse"
  /\ \E parsed \in BOOLEAN :
       upload' = IF parsed THEN [upload EXCEPT !.pc = "createInvoice"]
                 ELSE UploadThrows(upload)
  /\ UNCHANGED <<valVars, invVars, deployed, batch, cfgVars>>

\* createInvoice resolves: the row is stored with every status 'pending'
CreateInvoiceSettles ==
  /\ upload.pc = "createInvoice"
  /\ \E i \in InvoiceIds, parsed \in ParsedNames :
       /\ ~invoices[i].exists
       /\ invoices' = [invoices EXCEPT ![i] = NewRow(parsed, TRUE)]
       /\ upload' = [UploadResponds(upload, 200) EXCEPT !.created = i]
  /\ UNCHANGED <<valVars, reqs, deployed, batch, cfgVars>>

\* an awaited call of the handler rejects
UploadAwaitRejects ==
  /\ upload.pc \in {"writeFile", "postDocument", "getDocument", "chatResponse", "createInvoice"}
  /\ upload' = UploadThrows(upload)
  /\ UNCHANGED <<valVars, invVars, deployed, batch, cfgVars>>

NextUpload ==
  \/ ReceiveUpload
  \/ WriteFileSettles
  \/ PostDocumentSettles
  \/ LoopTest
  \/ FetchSettles
  \/ SleepEnds
  \/ UploadGetDocument
  \/ ChatResponseSettles
  \/ CreateInvoiceSettles
  \/ UploadAwaitRejects

\* every awaited promise settles and every timer fires
SpecUpload == InitUpload /\ [][NextUpload]_vars /\ WF_vars(NextUpload)

(***************************************************************************)
(* Claims about the polling loop (checked under SpecUpload)                *)
(***************************************************************************)
UploadEnded == upload.pc \in {"responded", "done"}
NoInvoiceStored == \A i \in InvoiceIds : ~invoices[i].exists

PollingBounded ==
  /\ upload.fetches <= upload.maxAttempts
  /\ upload.poll = "returned" =>
       /\ upload.last.kind = "tasks" /\ HasFinal(upload.last.tasks)
       /\ upload.data = upload.last.tasks
  /\ (upload.poll = "running" /\ upload.pc \in {"sleep", "loop"}) =>
       ~(upload.last.kind = "tasks" /\ HasFinal(upload.last.tasks))
  /\ upload.poll = "threw" => upload.fetches = upload.maxAttempts
  /\ (upload.last.kind = "rejected" /\ upload.fetches < upload.maxAttempts) =>
       upload.poll = "running"
  /\ (\/ upload.poll = "threw"
      \/ upload.poll = "returned" /\ upload.data[1] = "FAILURE") =>
       /\ NoInvoiceStored
       /\ upload.created = 0
       /\ (upload.caller = "route" /\ UploadEnded) => upload.status = 500

\* C30: pollUntilCondition ends, after at most maxAttempts calls of
\* getUploadTask: it returns the task list of the first fetch that yields a
\* task whose status is neither PENDING nor STARTED, else it throws after
\* exactly maxAttempts fetches; a rejected fetch only uses up its attempt; and
\* when polling throws or the task the route reads has status FAILURE, the
\* request ends with 500 and no invoice row is stored.
C30_BoundedPolling == []PollingBounded /\ <>UploadEnded

\* an upload answered 500 after all 50 polling attempts, one of them a
\* rejected fetch, were used up
C30_Witness ==
  /\ upload.pc = "responded" /\ upload.caller = "route" /\ upload.status = 500
  /\ upload.poll = "threw"
  /\ upload.fetches = routeMaxAttempts
  /\ upload.failedFetch

====
